---------------------------- MODULE Spec2Model ----------------------------
(***************************************************************************)
(* A model of the analysis pipeline of the disnes 6502/NES disassembler    *)
(* (src/src/analysis/*.rs) together with the address, instruction, bank,   *)
(* memory and assembly primitives it rests on.                             *)
(*                                                                         *)
(* Representation.  The program keeps five arrays of 0x10000 elements      *)
(* (Permissions, Cdl, Analysis, Labels, bank ids).  Here such an array is  *)
(* a record [at |-> f, rest |-> d]: f gives the element of every address   *)
(* in Tracked, d is the element of every other address.  Tracked holds     *)
(* every address of a loaded bank, the six interrupt vector bytes, every   *)
(* address the input annotates individually and every address that an      *)
(* instruction or vector of the loaded banks can name as a destination,    *)
(* so no pass ever addresses an untracked cell individually and the        *)
(* untracked cells stay uniform.  Addresses are the integers 0..0xFFFF     *)
(* and all arithmetic keeps the 16 bit width of the source.                *)
(*                                                                         *)
(* Option<T> is modelled as a set with at most one element:                *)
(* None = {} and Some(x) = {x}.  Bank ids are 0-based as in the source.    *)
(***************************************************************************)
EXTENDS Integers, Sequences, FiniteSets, TLC

(***************************************************************************)
(* address.rs                                                              *)
(***************************************************************************)
AddressSpace == 65536

ADDR_MAX == 65535

ZP_MAX == 255

Address == 0 .. ADDR_MAX

ZpAll == 0 .. ZP_MAX

Some(x) == {x}

None == {}

Unwrap(opt) == CHOOSE x \in opt : TRUE

\* an addition that wraps around where Address::checked_add_unsigned gives None
checked_add_unsigned_wrap(a, offset) == Some((a + offset) % AddressSpace)

\* Address::checked_add_unsigned: None when the sum leaves 0..=0xFFFF.
checked_add_unsigned(a, offset) ==
  IF a + offset <= ADDR_MAX THEN Some(a + offset) ELSE None

\* Address::checked_add_signed: None when the sum leaves 0..=0xFFFF.
checked_add_signed(a, rel) ==
  IF a + rel >= 0 /\ a + rel <= ADDR_MAX THEN Some(a + rel) ELSE None

\* Address::wrapping_add_unsigned: the sum modulo 0x10000.
wrapping_add_unsigned(a, offset) == (a + offset) % AddressSpace

\* Address::wrapping_add_signed: the sum modulo 0x10000 (rel may be negative).
wrapping_add_signed(a, rel) == (a + rel + AddressSpace) % AddressSpace

\* ZpAddress::checked_add_unsigned: None when the sum leaves 0..=0xFF.
zp_checked_add_unsigned(zp, offset) ==
  IF zp + offset <= ZP_MAX THEN Some(zp + offset) ELSE None

\* Address::from_le_bytes
from_le_bytes(lo, hi) == lo + 256 * hi

\* AddressRange: a record [min, max] with min <= max.
from_start_len(min, len) == [min |-> min, max |-> min + len - 1]

range_len(r) == r.max - r.min + 1

range_contains_addr(r, a) == r.min <= a /\ a <= r.max

\* an intersection test that lets two ranges share their end address
intersects_open(r1, r2) == ~(r1.max <= r2.min \/ r2.max <= r1.min)

intersects(r1, r2) == ~(r1.max < r2.min \/ r2.max < r1.min)

\* ArrayByAddress<T>: element of address a.
Get(arr, a) == IF a \in DOMAIN arr.at THEN arr.at[a] ELSE arr.rest

\* ArrayByAddress<T>: the array with the element of tracked address a set to v.
Put(arr, a, v) == [arr EXCEPT !.at[a] = v]

\* The ascending enumeration (Address::all(), AddressRange::into_iter)
\* restricted to a finite set of addresses, as a sequence.
RECURSIVE Ascending(_)
Ascending(S) ==
  IF S = {} THEN << >>
  ELSE LET m == CHOOSE x \in S : \A y \in S : x <= y
       IN  << m >> \o Ascending(S \ {m})

(***************************************************************************)
(* op.rs: the tables of Opcode, indexed by opcode + 1                      *)
(***************************************************************************)
IS_OFFICIAL_TABLE ==
  << 1, 1, 0, 0, 0, 1, 1, 0, 1, 1, 1, 0, 0, 1, 1, 0,
     1, 1, 0, 0, 0, 1, 1, 0, 1, 1, 0, 0, 0, 1, 1, 0,
     1, 1, 0, 0, 1, 1, 1, 0, 1, 1, 1, 0, 1, 1, 1, 0,
     1, 1, 0, 0, 0, 1, 1, 0, 1, 1, 0, 0, 0, 1, 1, 0,
     1, 1, 0, 0, 0, 1, 1, 0, 1, 1, 1, 0, 1, 1, 1, 0,
     1, 1, 0, 0, 0, 1, 1, 0, 1, 1, 0, 0, 0, 1, 1, 0,
     1, 1, 0, 0, 0, 1, 1, 0, 1, 1, 1, 0, 1, 1, 1, 0,
     1, 1, 0, 0, 0, 1, 1, 0, 1, 1, 0, 0, 0, 1, 1, 0,
     0, 1, 0, 0, 1, 1, 1, 0, 1, 0, 1, 0, 1, 1, 1, 0,
     1, 1, 0, 0, 1, 1, 1, 0, 1, 1, 1, 0, 0, 1, 0, 0,
     1, 1, 1, 0, 1, 1, 1, 0, 1, 1, 1, 0, 1, 1, 1, 0,
     1, 1, 0, 0, 1, 1, 1, 0, 1, 1, 1, 0, 1, 1, 1, 0,
     1, 1, 0, 0, 1, 1, 1, 0, 1, 1, 1, 0, 1, 1, 1, 0,
     1, 1, 0, 0, 0, 1, 1, 0, 1, 1, 0, 0, 0, 1, 1, 0,
     1, 1, 0, 0, 1, 1, 1, 0, 1, 1, 1, 0, 1, 1, 1, 0,
     1, 1, 0, 0, 0, 1, 1, 0, 1, 1, 0, 0, 0, 1, 1, 0 >>

IS_READ_TABLE ==
  << 0, 1, 0, 1, 1, 1, 1, 1, 0, 0, 0, 0, 1, 1, 1, 1,
     0, 1, 0, 1, 1, 1, 1, 1, 0, 1, 0, 1, 1, 1, 1, 1,
     0, 1, 0, 1, 1, 1, 1, 1, 0, 0, 0, 0, 1, 1, 1, 1,
     0, 1, 0, 1, 1, 1, 1, 1, 0, 1, 0, 1, 1, 1, 1, 1,
     0, 1, 0, 1, 1, 1, 1, 1, 0, 0, 0, 0, 0, 1, 1, 1,
     0, 1, 0, 1, 1, 1, 1, 1, 0, 1, 0, 1, 1, 1, 1, 1,
     0, 1, 0, 1, 1, 1, 1, 1, 0, 0, 0, 0, 0, 1, 1, 1,
     0, 1, 0, 1, 1, 1, 1, 1, 0, 1, 0, 1, 1, 1, 1, 1,
     0, 0, 0, 0, 0, 0, 0, 0, 0, 0, 0, 0, 0, 0, 0, 0,
     0, 0, 0, 0, 0, 0, 0, 0, 0, 0, 0, 0, 0, 0, 0, 0,
     0, 1, 0, 1, 1, 1, 1, 1, 0, 0, 0, 0, 1, 1, 1, 1,
     0, 1, 0, 1, 1, 1, 1, 1, 0, 1, 0, 1, 1, 1, 1, 1,
     0, 1, 0, 1, 1, 1, 1, 1, 0, 0, 0, 0, 1, 1, 1, 1,
     0, 1, 0, 1, 1, 1, 1, 1, 0, 1, 0, 1, 1, 1, 1, 1,
     0, 1, 0, 1, 1, 1, 1, 1, 0, 0, 0, 0, 1, 1, 1, 1,
     0, 1, 0, 1, 1, 1, 1, 1, 0, 1, 0, 1, 1, 1, 1, 1 >>

IS_WRITE_TABLE ==
  << 0, 0, 0, 1, 0, 0, 1, 1, 0, 0, 0, 0, 0, 0, 1, 1,
     0, 0, 0, 1, 0, 0, 1, 1, 0, 0, 0, 1, 0, 0, 1, 1,
     0, 0, 0, 1, 0, 0, 1, 1, 0, 0, 0, 0, 0, 0, 1, 1,
     0, 0, 0, 1, 0, 0, 1, 1, 0, 0, 0, 1, 0, 0, 1, 1,
     0, 0, 0, 1, 0, 0, 1, 1, 0, 0, 0, 0, 0, 0, 1, 1,
     0, 0, 0, 1, 0, 0, 1, 1, 0, 0, 0, 1, 0, 0, 1, 1,
     0, 0, 0, 1, 0, 0, 1, 1, 0, 0, 0, 0, 0, 0, 1, 1,
     0, 0, 0, 1, 0, 0, 1, 1, 0, 0, 0, 1, 0, 0, 1, 1,
     0, 1, 0, 1, 1, 1, 1, 1, 0, 0, 0, 0, 1, 1, 1, 1,
     0, 1, 0, 1, 1, 1, 1, 1, 0, 1, 0, 1, 1, 1, 1, 1,
     0, 0, 0, 0, 0, 0, 0, 0, 0, 0, 0, 0, 0, 0, 0, 0,
     0, 0, 0, 0, 0, 0, 0, 0, 0, 0, 0, 0, 0, 0, 0, 0,
     0, 0, 0, 1, 0, 0, 1, 1, 0, 0, 0, 0, 0, 0, 1, 1,
     0, 0, 0, 1, 0, 0, 1, 1, 0, 0, 0, 1, 0, 0, 1, 1,
     0, 0, 0, 1, 0, 0, 1, 1, 0, 0, 0, 0, 0, 0, 1, 1,
     0, 0, 0, 1, 0, 0, 1, 1, 0, 0, 0, 1, 0, 0, 1, 1 >>

ADDRESSING_TABLE ==
  << "Imp", "IndX", "Imp", "IndX", "Zp", "Zp", "Zp", "Zp", "Imp", "Imm", "Acc", "Imm", "Abs", "Abs", "Abs", "Abs",
     "Rel", "IndY", "Imp", "IndY", "ZpX", "ZpX", "ZpX", "ZpX", "Imp", "AbsY", "Imp", "AbsY", "AbsX", "AbsX", "AbsX", "AbsX",
     "Abs", "IndX", "Imp", "IndX", "Zp", "Zp", "Zp", "Zp", "Imp", "Imm", "Acc", "Imm", "Abs", "Abs", "Abs", "Abs",
     "Rel", "IndY", "Imp", "IndY", "ZpX", "ZpX", "ZpX", "ZpX", "Imp", "AbsY", "Imp", "AbsY", "AbsX", "AbsX", "AbsX", "AbsX",
     "Imp", "IndX", "Imp", "IndX", "Zp", "Zp", "Zp", "Zp", "Imp", "Imm", "Acc", "Imm", "Abs", "Abs", "Abs", "Abs",
     "Rel", "IndY", "Imp", "IndY", "ZpX", "ZpX", "ZpX", "ZpX", "Imp", "AbsY", "Imp", "AbsY", "AbsX", "AbsX", "AbsX", "AbsX",
     "Imp", "IndX", "Imp", "IndX", "Zp", "Zp", "Zp", "Zp", "Imp", "Imm", "Acc", "Imm", "Ind", "Abs", "Abs", "Abs",
     "Rel", "IndY", "Imp", "IndY", "ZpX", "ZpX", "ZpX", "ZpX", "Imp", "AbsY", "Imp", "AbsY", "AbsX", "AbsX", "AbsX", "AbsX",
     "Imm", "IndX", "Imm", "IndX", "Zp", "Zp", "Zp", "Zp", "Imp", "Imm", "Imp", "Imm", "Abs", "Abs", "Abs", "Abs",
     "Rel", "IndY", "Imp", "IndY", "ZpX", "ZpX", "ZpY", "ZpY", "Imp", "AbsY", "Imp", "AbsY", "AbsX", "AbsX", "AbsY", "AbsY",
     "Imm", "IndX", "Imm", "IndX", "Zp", "Zp", "Zp", "Zp", "Imp", "Imm", "Imp", "Imm", "Abs", "Abs", "Abs", "Abs",
     "Rel", "IndY", "Imp", "IndY", "ZpX", "ZpX", "ZpY", "ZpY", "Imp", "AbsY", "Imp", "AbsY", "AbsX", "AbsX", "AbsY", "AbsY",
     "Imm", "IndX", "Imm", "IndX", "Zp", "Zp", "Zp", "Zp", "Imp", "Imm", "Imp", "Imm", "Abs", "Abs", "Abs", "Abs",
     "Rel", "IndY", "Imp", "IndY", "ZpX", "ZpX", "ZpX", "ZpX", "Imp", "AbsY", "Imp", "AbsY", "AbsX", "AbsX", "AbsX", "AbsX",
     "Imm", "IndX", "Imm", "IndX", "Zp", "Zp", "Zp", "Zp", "Imp", "Imm", "Imp", "Imm", "Abs", "Abs", "Abs", "Abs",
     "Rel", "IndY", "Imp", "IndY", "ZpX", "ZpX", "ZpX", "ZpX", "Imp", "AbsY", "Imp", "AbsY", "AbsX", "AbsX", "AbsX", "AbsX" >>

\* Addressing::operand_len
operand_len_of(addressing) ==
  CASE addressing \in {"Imp", "Acc"} -> 0
    [] addressing \in {"Imm", "Zp", "ZpX", "ZpY", "IndX", "IndY", "Rel"} -> 1
    [] addressing \in {"Abs", "AbsX", "AbsY", "Ind"} -> 2

addressing(opcode) == ADDRESSING_TABLE[opcode + 1]

operand_len(opcode) == operand_len_of(addressing(opcode))

op_len(opcode) == 1 + operand_len(opcode)

opcode_is_official(opcode) == IS_OFFICIAL_TABLE[opcode + 1] # 0

opcode_is_read(opcode) == IS_READ_TABLE[opcode + 1] # 0

opcode_is_write(opcode) == IS_WRITE_TABLE[opcode + 1] # 0

OPC_BRK == 0

OPC_JSR == 32

OPC_RTI == 64

OPC_JMP_ABS == 76

OPC_RTS == 96

OPC_JMP_IND == 108

OPC_CLV == 184

OPC_SED == 248

BranchOpcodes == {16, 48, 80, 112, 144, 176, 208, 240}

KilOpcodes == {2, 18, 34, 50, 66, 82, 98, 114, 146, 178, 210, 242}

opcode_is_branch(opcode) == opcode \in BranchOpcodes

opcode_is_kil(opcode) == opcode \in KilOpcodes

\* An Op value is [opcode, arg]: the variant (one per opcode byte) and the
\* value of its typed operand (0 when the variant carries none; the signed
\* value for a relative operand).
\* Op::fetch: buf holds exactly op_len(buf[1]) bytes.
Op_fetch(buf) ==
  LET opcode == buf[1]
      mode   == addressing(opcode)
  IN  [opcode |-> opcode,
       arg |->
         CASE mode \in {"Imp", "Acc"} -> 0
           [] mode \in {"Imm", "Zp", "ZpX", "ZpY", "IndX", "IndY"} -> buf[2]
           [] mode \in {"Abs", "AbsX", "AbsY", "Ind"} -> from_le_bytes(buf[2], buf[3])
           [] mode = "Rel" -> IF buf[2] >= 128 THEN buf[2] - 256 ELSE buf[2]]

\* Op::operand
Op_operand(op) == [kind |-> addressing(op.opcode), val |-> op.arg]

\* Op::len
Op_len(op) == op_len(op.opcode)

\* Op::succ
Op_succ(op) ==
  IF opcode_is_branch(op.opcode) THEN [kind |-> "Branch", val |-> op.arg]
  ELSE CASE op.opcode = OPC_BRK -> [kind |-> "Brk", val |-> 0]
         [] op.opcode = OPC_JSR -> [kind |-> "Jsr", val |-> op.arg]
         [] op.opcode = OPC_RTI -> [kind |-> "Rti", val |-> 0]
         [] op.opcode = OPC_RTS -> [kind |-> "Rts", val |-> 0]
         [] op.opcode = OPC_JMP_ABS -> [kind |-> "JmpAbs", val |-> op.arg]
         [] op.opcode = OPC_JMP_IND -> [kind |-> "JmpInd", val |-> op.arg]
         [] OTHER -> IF opcode_is_kil(op.opcode)
                     THEN [kind |-> "Kil", val |-> 0]
                     ELSE [kind |-> "Normal", val |-> Op_len(op)]

\* Op::is_official, Op::is_read, Op::is_write
Op_is_official(op) == opcode_is_official(op.opcode)

Op_is_read(op) == opcode_is_read(op.opcode)

Op_is_write(op) == opcode_is_write(op.opcode)

(***************************************************************************)
(* bank.rs: a bank is [addr, body, fixed], body a nonempty byte sequence   *)
(* with addr + Len(body) - 1 <= 0xFFFF.                                    *)
(***************************************************************************)
Bank_addr_range(bank) == from_start_len(bank.addr, Len(bank.body))

Bank_contains_addr(bank, a) == range_contains_addr(Bank_addr_range(bank), a)

Bank_get_byte(bank, a) ==
  IF Bank_contains_addr(bank, a) THEN Some(bank.body[a - bank.addr + 1]) ELSE None

Bank_get_bytes_from(bank, a) ==
  IF Bank_contains_addr(bank, a)
  THEN Some(SubSeq(bank.body, a - bank.addr + 1, Len(bank.body)))
  ELSE None

(***************************************************************************)
(* memory.rs: a Memory is the sequence of its banks; bank id i is          *)
(* memory[i + 1].  Memory::new panics unless the banks are pairwise        *)
(* disjoint.                                                               *)
(***************************************************************************)
BankIds(memory) == 0 .. Len(memory) - 1

Memory_new_ok(banks) ==
  \A i, j \in 1 .. Len(banks) :
    i < j => ~intersects(Bank_addr_range(banks[i]), Bank_addr_range(banks[j]))

find_bank_id(memory, a) ==
  {id \in BankIds(memory) : Bank_contains_addr(memory[id + 1], a)}

get_byte(memory, a) ==
  {[byte |-> Unwrap(Bank_get_byte(memory[id + 1], a)), bank_id |-> id] :
     id \in find_bank_id(memory, a)}

get_bytes_from(memory, a) ==
  {[buf |-> Unwrap(Bank_get_bytes_from(memory[id + 1], a)), bank_id |-> id] :
     id \in find_bank_id(memory, a)}

\* A fetch that wants one byte more than the instruction in the bank.
fetch_op_strict(memory, a) ==
  LET decode(g, n) ==
        IF Len(g.buf) > n
        THEN [tag |-> "Ok", op |-> Op_fetch(SubSeq(g.buf, 1, n)),
              bank_id |-> g.bank_id]
        ELSE [tag |-> "Incomplete", buf |-> g.buf]
      first(got) ==
        IF got = None THEN [tag |-> "Nothing"]
        ELSE decode(Unwrap(got), op_len(Unwrap(got).buf[1]))
  IN  first(get_bytes_from(memory, a))

\* Memory::fetch_op: [tag |-> "Ok", op, bank_id], [tag |-> "Incomplete", buf]
\* or [tag |-> "Nothing"].
fetch_op(memory, a) ==
  LET decode(g, n) ==
        IF Len(g.buf) >= n
        THEN [tag |-> "Ok", op |-> Op_fetch(SubSeq(g.buf, 1, n)),
              bank_id |-> g.bank_id]
        ELSE [tag |-> "Incomplete", buf |-> g.buf]
      first(got) ==
        IF got = None THEN [tag |-> "Nothing"]
        ELSE decode(Unwrap(got), op_len(Unwrap(got).buf[1]))
  IN  first(get_bytes_from(memory, a))

\* Memory::fetch_addr: Some([addr, bank_id]) when two bytes are left in the bank.
fetch_addr(memory, a) ==
  {[addr |-> from_le_bytes(g.buf[1], g.buf[2]), bank_id |-> g.bank_id] :
     g \in {h \in get_bytes_from(memory, a) : Len(h.buf) >= 2}}

IRQ_VECTOR == 65534

RESET_VECTOR == 65532

NMI_VECTOR == 65530

\* A resolve_op_succ that reads the pointer of JMP (ptr) whatever its low
\* byte is.
resolve_op_succ_follow(memory, addr, succ) ==
  CASE succ.kind = "Normal" ->
         [kind |-> "Normal", dst |-> wrapping_add_unsigned(addr, succ.val)]
    [] succ.kind = "Brk" ->
         [kind |-> "Brk", dst |-> {x.addr : x \in fetch_addr(memory, IRQ_VECTOR)}]
    [] succ.kind = "Kil" -> [kind |-> "Kil"]
    [] succ.kind = "Branch" ->
         LET not_taken == wrapping_add_unsigned(addr, 2)
             taken     == wrapping_add_signed(not_taken, succ.val)
         IN  [kind |-> "Branch", taken |-> taken, not_taken |-> not_taken]
    [] succ.kind = "Jsr" -> [kind |-> "Jsr", dst |-> succ.val]
    [] succ.kind = "Rti" -> [kind |-> "Rti"]
    [] succ.kind = "Rts" -> [kind |-> "Rts"]
    [] succ.kind = "JmpAbs" -> [kind |-> "JmpAbs", dst |-> succ.val]
    [] succ.kind = "JmpInd" ->
         [kind |-> "JmpInd",
          dst |-> {x.addr : x \in fetch_addr(memory, succ.val)}]

\* Memory::resolve_op_succ.  The destinations of Brk and JmpInd are Options.
resolve_op_succ(memory, addr, succ) ==
  CASE succ.kind = "Normal" ->
         [kind |-> "Normal", dst |-> wrapping_add_unsigned(addr, succ.val)]
    [] succ.kind = "Brk" ->
         [kind |-> "Brk", dst |-> {x.addr : x \in fetch_addr(memory, IRQ_VECTOR)}]
    [] succ.kind = "Kil" -> [kind |-> "Kil"]
    [] succ.kind = "Branch" ->
         LET not_taken == wrapping_add_unsigned(addr, 2)
             taken     == wrapping_add_signed(not_taken, succ.val)
         IN  [kind |-> "Branch", taken |-> taken, not_taken |-> not_taken]
    [] succ.kind = "Jsr" -> [kind |-> "Jsr", dst |-> succ.val]
    [] succ.kind = "Rti" -> [kind |-> "Rti"]
    [] succ.kind = "Rts" -> [kind |-> "Rts"]
    [] succ.kind = "JmpAbs" -> [kind |-> "JmpAbs", dst |-> succ.val]
    [] succ.kind = "JmpInd" ->
         [kind |-> "JmpInd",
          dst |-> IF succ.val % 256 = 255 THEN None
                  ELSE {x.addr : x \in fetch_addr(memory, succ.val)}]

(***************************************************************************)
(* permission.rs: a Permission is a subset of {"R", "W", "X"}.             *)
(***************************************************************************)
is_readable(p) == "R" \in p

is_writable(p) == "W" \in p

is_executable(p) == "X" \in p

(***************************************************************************)
(* cdl.rs: a CdlElement is a byte of flag bits.                            *)
(***************************************************************************)
Bit(e, n) == (e \div (2 ^ n)) % 2 = 1

Cdl_is_opcode(cdl, a) == Bit(Get(cdl, a), 0)

Cdl_is_data(cdl, a) == Bit(Get(cdl, a), 1)

Cdl_is_jump_target(cdl, a) == Bit(Get(cdl, a), 4)

Cdl_is_indirect_data(cdl, a) == Bit(Get(cdl, a), 5)

Cdl_is_pcm_data(cdl, a) == Bit(Get(cdl, a), 6)

Cdl_is_entrypoint(cdl, a) == Bit(Get(cdl, a), 7)

\* A start of indirect data that does not look at the address before.
Cdl_is_indirect_data_anywhere(cdl, a) == Cdl_is_indirect_data(cdl, a)

Cdl_is_indirect_data_start(cdl, a) ==
  /\ Cdl_is_indirect_data(cdl, a)
  /\ \A pre \in checked_add_signed(a, -1) : ~Cdl_is_indirect_data(cdl, pre)

Cdl_is_pcm_data_start(cdl, a) ==
  /\ Cdl_is_pcm_data(cdl, a)
  /\ \A pre \in checked_add_signed(a, -1) : ~Cdl_is_pcm_data(cdl, pre)

(***************************************************************************)
(* assembly.rs: labels and statements                                      *)
(***************************************************************************)
Label_new(entrypoint) == [entrypoint |-> entrypoint]

\* A Labels::set that stores the new label as given.
Labels_set_overwrite(labels, a, label) == Put(labels, a, Some(label))

\* Labels::set: an existing label keeps its entrypoint flag.
Labels_set(labels, a, label) ==
  LET orig == Get(labels, a)
      new  == IF orig # None
              THEN Label_new(Unwrap(orig).entrypoint \/ label.entrypoint)
              ELSE label
  IN  Put(labels, a, Some(new))

\* Statement: [kind |-> "Op", op], [kind |-> "IncompleteOp", buf] or
\* [kind |-> "Byte", byte].
Statement_len(stmt) ==
  CASE stmt.kind = "Op" -> Op_len(stmt.op)
    [] stmt.kind = "IncompleteOp" -> Len(stmt.buf)
    [] stmt.kind = "Byte" -> 1

RECURSIVE SumLen(_)
SumLen(stmts) ==
  IF stmts = << >> THEN 0 ELSE Statement_len(Head(stmts)) + SumLen(Tail(stmts))

\* AssemblyBuilder: a record of four Options.
AssemblyBuilder_new ==
  [bank_addr_range |-> None, bank_name |-> None, statements |-> None, labels |-> None]

\* A build that does not compare the lengths.
AssemblyBuilder_build_unmeasured(b) ==
  IF b.bank_addr_range = None THEN [tag |-> "Err", msg |-> "bank_addr_range is none"]
  ELSE IF b.bank_name = None THEN [tag |-> "Err", msg |-> "bank_name is none"]
  ELSE IF b.statements = None THEN [tag |-> "Err", msg |-> "statements is none"]
  ELSE IF b.labels = None THEN [tag |-> "Err", msg |-> "labels is none"]
  ELSE IF Unwrap(b.statements) = << >> THEN [tag |-> "Err", msg |-> "0 byte assembly"]
  ELSE [tag |-> "Ok",
        bank_addr_range |-> Unwrap(b.bank_addr_range),
        bank_name |-> Unwrap(b.bank_name),
        statements |-> Unwrap(b.statements),
        labels |-> Unwrap(b.labels)]

\* AssemblyBuilder::build: an error for a field that was not supplied, for an
\* empty statement list, or for a length mismatch.
AssemblyBuilder_build(b) ==
  IF b.bank_addr_range = None THEN [tag |-> "Err", msg |-> "bank_addr_range is none"]
  ELSE IF b.bank_name = None THEN [tag |-> "Err", msg |-> "bank_name is none"]
  ELSE IF b.statements = None THEN [tag |-> "Err", msg |-> "statements is none"]
  ELSE IF b.labels = None THEN [tag |-> "Err", msg |-> "labels is none"]
  ELSE IF Unwrap(b.statements) = << >> THEN [tag |-> "Err", msg |-> "0 byte assembly"]
  ELSE IF SumLen(Unwrap(b.statements)) # range_len(Unwrap(b.bank_addr_range))
  THEN [tag |-> "Err", msg |-> "bank address range mismatch"]
  ELSE [tag |-> "Ok",
        bank_addr_range |-> Unwrap(b.bank_addr_range),
        bank_name |-> Unwrap(b.bank_name),
        statements |-> Unwrap(b.statements),
        labels |-> Unwrap(b.labels)]

(***************************************************************************)
(* op.rs: the Op enum, one variant per opcode byte with a typed payload.   *)
(* OP_VARIANTS lists the variants in the order of their declaration, each  *)
(* with the type of its payload, the byte Op::opcode gives it and the      *)
(* operand Op::operand gives it; FETCH_TABLE lists, for each first byte,   *)
(* the variant Op::fetch builds and the closure that reads its payload.    *)
(***************************************************************************)
OP_VARIANTS ==
  << [variant |-> "Brk", payload |-> "none", opcode |-> 0, operand |-> "Imp"],
     [variant |-> "OraIndX", payload |-> "ZpAddress", opcode |-> 1, operand |-> "IndX"],
     [variant |-> "Kil02", payload |-> "none", opcode |-> 2, operand |-> "Imp"],
     [variant |-> "SloIndX", payload |-> "ZpAddress", opcode |-> 3, operand |-> "IndX"],
     [variant |-> "NopZp04", payload |-> "ZpAddress", opcode |-> 4, operand |-> "Zp"],
     [variant |-> "OraZp", payload |-> "ZpAddress", opcode |-> 5, operand |-> "Zp"],
     [variant |-> "AslZp", payload |-> "ZpAddress", opcode |-> 6, operand |-> "Zp"],
     [variant |-> "SloZp", payload |-> "ZpAddress", opcode |-> 7, operand |-> "Zp"],
     [variant |-> "Php", payload |-> "none", opcode |-> 8, operand |-> "Imp"],
     [variant |-> "OraImm", payload |-> "u8", opcode |-> 9, operand |-> "Imm"],
     [variant |-> "AslAcc", payload |-> "none", opcode |-> 10, operand |-> "Acc"],
     [variant |-> "Anc0B", payload |-> "u8", opcode |-> 11, operand |-> "Imm"],
     [variant |-> "NopAbs", payload |-> "Address", opcode |-> 12, operand |-> "Abs"],
     [variant |-> "OraAbs", payload |-> "Address", opcode |-> 13, operand |-> "Abs"],
     [variant |-> "AslAbs", payload |-> "Address", opcode |-> 14, operand |-> "Abs"],
     [variant |-> "SloAbs", payload |-> "Address", opcode |-> 15, operand |-> "Abs"],
     [variant |-> "Bpl", payload |-> "i8", opcode |-> 16, operand |-> "Rel"],
     [variant |-> "OraIndY", payload |-> "ZpAddress", opcode |-> 17, operand |-> "IndY"],
     [variant |-> "Kil12", payload |-> "none", opcode |-> 18, operand |-> "Imp"],
     [variant |-> "SloIndY", payload |-> "ZpAddress", opcode |-> 19, operand |-> "IndY"],
     [variant |-> "NopZpX14", payload |-> "ZpAddress", opcode |-> 20, operand |-> "ZpX"],
     [variant |-> "OraZpX", payload |-> "ZpAddress", opcode |-> 21, operand |-> "ZpX"],
     [variant |-> "AslZpX", payload |-> "ZpAddress", opcode |-> 22, operand |-> "ZpX"],
     [variant |-> "SloZpX", payload |-> "ZpAddress", opcode |-> 23, operand |-> "ZpX"],
     [variant |-> "Clc", payload |-> "none", opcode |-> 24, operand |-> "Imp"],
     [variant |-> "OraAbsY", payload |-> "Address", opcode |-> 25, operand |-> "AbsY"],
     [variant |-> "Nop1A", payload |-> "none", opcode |-> 26, operand |-> "Imp"],
     [variant |-> "SloAbsY", payload |-> "Address", opcode |-> 27, operand |-> "AbsY"],
     [variant |-> "NopAbsX1C", payload |-> "Address", opcode |-> 28, operand |-> "AbsX"],
     [variant |-> "OraAbsX", payload |-> "Address", opcode |-> 29, operand |-> "AbsX"],
     [variant |-> "AslAbsX", payload |-> "Address", opcode |-> 30, operand |-> "AbsX"],
     [variant |-> "SloAbsX", payload |-> "Address", opcode |-> 31, operand |-> "AbsX"],
     [variant |-> "Jsr", payload |-> "Address", opcode |-> 32, operand |-> "Abs"],
     [variant |-> "AndIndX", payload |-> "ZpAddress", opcode |-> 33, operand |-> "IndX"],
     [variant |-> "Kil22", payload |-> "none", opcode |-> 34, operand |-> "Imp"],
     [variant |-> "RlaIndX", payload |-> "ZpAddress", opcode |-> 35, operand |-> "IndX"],
     [variant |-> "BitZp", payload |-> "ZpAddress", opcode |-> 36, operand |-> "Zp"],
     [variant |-> "AndZp", payload |-> "ZpAddress", opcode |-> 37, operand |-> "Zp"],
     [variant |-> "RolZp", payload |-> "ZpAddress", opcode |-> 38, operand |-> "Zp"],
     [variant |-> "RlaZp", payload |-> "ZpAddress", opcode |-> 39, operand |-> "Zp"],
     [variant |-> "Plp", payload |-> "none", opcode |-> 40, operand |-> "Imp"],
     [variant |-> "AndImm", payload |-> "u8", opcode |-> 41, operand |-> "Imm"],
     [variant |-> "RolAcc", payload |-> "none", opcode |-> 42, operand |-> "Acc"],
     [variant |-> "Anc2B", payload |-> "u8", opcode |-> 43, operand |-> "Imm"],
     [variant |-> "BitAbs", payload |-> "Address", opcode |-> 44, operand |-> "Abs"],
     [variant |-> "AndAbs", payload |-> "Address", opcode |-> 45, operand |-> "Abs"],
     [variant |-> "RolAbs", payload |-> "Address", opcode |-> 46, operand |-> "Abs"],
     [variant |-> "RlaAbs", payload |-> "Address", opcode |-> 47, operand |-> "Abs"],
     [variant |-> "Bmi", payload |-> "i8", opcode |-> 48, operand |-> "Rel"],
     [variant |-> "AndIndY", payload |-> "ZpAddress", opcode |-> 49, operand |-> "IndY"],
     [variant |-> "Kil32", payload |-> "none", opcode |-> 50, operand |-> "Imp"],
     [variant |-> "RlaIndY", payload |-> "ZpAddress", opcode |-> 51, operand |-> "IndY"],
     [variant |-> "NopZpX34", payload |-> "ZpAddress", opcode |-> 52, operand |-> "ZpX"],
     [variant |-> "AndZpX", payload |-> "ZpAddress", opcode |-> 53, operand |-> "ZpX"],
     [variant |-> "RolZpX", payload |-> "ZpAddress", opcode |-> 54, operand |-> "ZpX"],
     [variant |-> "RlaZpX", payload |-> "ZpAddress", opcode |-> 55, operand |-> "ZpX"],
     [variant |-> "Sec", payload |-> "none", opcode |-> 56, operand |-> "Imp"],
     [variant |-> "AndAbsY", payload |-> "Address", opcode |-> 57, operand |-> "AbsY"],
     [variant |-> "Nop3A", payload |-> "none", opcode |-> 58, operand |-> "Imp"],
     [variant |-> "RlaAbsY", payload |-> "Address", opcode |-> 59, operand |-> "AbsY"],
     [variant |-> "NopAbsX3C", payload |-> "Address", opcode |-> 60, operand |-> "AbsX"],
     [variant |-> "AndAbsX", payload |-> "Address", opcode |-> 61, operand |-> "AbsX"],
     [variant |-> "RolAbsX", payload |-> "Address", opcode |-> 62, operand |-> "AbsX"],
     [variant |-> "RlaAbsX", payload |-> "Address", opcode |-> 63, operand |-> "AbsX"],
     [variant |-> "Rti", payload |-> "none", opcode |-> 64, operand |-> "Imp"],
     [variant |-> "EorIndX", payload |-> "ZpAddress", opcode |-> 65, operand |-> "IndX"],
     [variant |-> "Kil42", payload |-> "none", opcode |-> 66, operand |-> "Imp"],
     [variant |-> "SreIndX", payload |-> "ZpAddress", opcode |-> 67, operand |-> "IndX"],
     [variant |-> "NopZp44", payload |-> "ZpAddress", opcode |-> 68, operand |-> "Zp"],
     [variant |-> "EorZp", payload |-> "ZpAddress", opcode |-> 69, operand |-> "Zp"],
     [variant |-> "LsrZp", payload |-> "ZpAddress", opcode |-> 70, operand |-> "Zp"],
     [variant |-> "SreZp", payload |-> "ZpAddress", opcode |-> 71, operand |-> "Zp"],
     [variant |-> "Pha", payload |-> "none", opcode |-> 72, operand |-> "Imp"],
     [variant |-> "EorImm", payload |-> "u8", opcode |-> 73, operand |-> "Imm"],
     [variant |-> "LsrAcc", payload |-> "none", opcode |-> 74, operand |-> "Acc"],
     [variant |-> "Alr", payload |-> "u8", opcode |-> 75, operand |-> "Imm"],
     [variant |-> "JmpAbs", payload |-> "Address", opcode |-> 76, operand |-> "Abs"],
     [variant |-> "EorAbs", payload |-> "Address", opcode |-> 77, operand |-> "Abs"],
     [variant |-> "LsrAbs", payload |-> "Address", opcode |-> 78, operand |-> "Abs"],
     [variant |-> "SreAbs", payload |-> "Address", opcode |-> 79, operand |-> "Abs"],
     [variant |-> "Bvc", payload |-> "i8", opcode |-> 80, operand |-> "Rel"],
     [variant |-> "EorIndY", payload |-> "ZpAddress", opcode |-> 81, operand |-> "IndY"],
     [variant |-> "Kil52", payload |-> "none", opcode |-> 82, operand |-> "Imp"],
     [variant |-> "SreIndY", payload |-> "ZpAddress", opcode |-> 83, operand |-> "IndY"],
     [variant |-> "NopZpX54", payload |-> "ZpAddress", opcode |-> 84, operand |-> "ZpX"],
     [variant |-> "EorZpX", payload |-> "ZpAddress", opcode |-> 85, operand |-> "ZpX"],
     [variant |-> "LsrZpX", payload |-> "ZpAddress", opcode |-> 86, operand |-> "ZpX"],
     [variant |-> "SreZpX", payload |-> "ZpAddress", opcode |-> 87, operand |-> "ZpX"],
     [variant |-> "Cli", payload |-> "none", opcode |-> 88, operand |-> "Imp"],
     [variant |-> "EorAbsY", payload |-> "Address", opcode |-> 89, operand |-> "AbsY"],
     [variant |-> "Nop5A", payload |-> "none", opcode |-> 90, operand |-> "Imp"],
     [variant |-> "SreAbsY", payload |-> "Address", opcode |-> 91, operand |-> "AbsY"],
     [variant |-> "NopAbsX5C", payload |-> "Address", opcode |-> 92, operand |-> "AbsX"],
     [variant |-> "EorAbsX", payload |-> "Address", opcode |-> 93, operand |-> "AbsX"],
     [variant |-> "LsrAbsX", payload |-> "Address", opcode |-> 94, operand |-> "AbsX"],
     [variant |-> "SreAbsX", payload |-> "Address", opcode |-> 95, operand |-> "AbsX"],
     [variant |-> "Rts", payload |-> "none", opcode |-> 96, operand |-> "Imp"],
     [variant |-> "AdcIndX", payload |-> "ZpAddress", opcode |-> 97, operand |-> "IndX"],
     [variant |-> "Kil62", payload |-> "none", opcode |-> 98, operand |-> "Imp"],
     [variant |-> "RraIndX", payload |-> "ZpAddress", opcode |-> 99, operand |-> "IndX"],
     [variant |-> "NopZp64", payload |-> "ZpAddress", opcode |-> 100, operand |-> "Zp"],
     [variant |-> "AdcZp", payload |-> "ZpAddress", opcode |-> 101, operand |-> "Zp"],
     [variant |-> "RorZp", payload |-> "ZpAddress", opcode |-> 102, operand |-> "Zp"],
     [variant |-> "RraZp", payload |-> "ZpAddress", opcode |-> 103, operand |-> "Zp"],
     [variant |-> "Pla", payload |-> "none", opcode |-> 104, operand |-> "Imp"],
     [variant |-> "AdcImm", payload |-> "u8", opcode |-> 105, operand |-> "Imm"],
     [variant |-> "RorAcc", payload |-> "none", opcode |-> 106, operand |-> "Acc"],
     [variant |-> "Arr", payload |-> "u8", opcode |-> 107, operand |-> "Imm"],
     [variant |-> "JmpInd", payload |-> "Address", opcode |-> 108, operand |-> "Ind"],
     [variant |-> "AdcAbs", payload |-> "Address", opcode |-> 109, operand |-> "Abs"],
     [variant |-> "RorAbs", payload |-> "Address", opcode |-> 110, operand |-> "Abs"],
     [variant |-> "RraAbs", payload |-> "Address", opcode |-> 111, operand |-> "Abs"],
     [variant |-> "Bvs", payload |-> "i8", opcode |-> 112, operand |-> "Rel"],
     [variant |-> "AdcIndY", payload |-> "ZpAddress", opcode |-> 113, operand |-> "IndY"],
     [variant |-> "Kil72", payload |-> "none", opcode |-> 114, operand |-> "Imp"],
     [variant |-> "RraIndY", payload |-> "ZpAddress", opcode |-> 115, operand |-> "IndY"],
     [variant |-> "NopZpX74", payload |-> "ZpAddress", opcode |-> 116, operand |-> "ZpX"],
     [variant |-> "AdcZpX", payload |-> "ZpAddress", opcode |-> 117, operand |-> "ZpX"],
     [variant |-> "RorZpX", payload |-> "ZpAddress", opcode |-> 118, operand |-> "ZpX"],
     [variant |-> "RraZpX", payload |-> "ZpAddress", opcode |-> 119, operand |-> "ZpX"],
     [variant |-> "Sei", payload |-> "none", opcode |-> 120, operand |-> "Imp"],
     [variant |-> "AdcAbsY", payload |-> "Address", opcode |-> 121, operand |-> "AbsY"],
     [variant |-> "Nop7A", payload |-> "none", opcode |-> 122, operand |-> "Imp"],
     [variant |-> "RraAbsY", payload |-> "Address", opcode |-> 123, operand |-> "AbsY"],
     [variant |-> "NopAbsX7C", payload |-> "Address", opcode |-> 124, operand |-> "AbsX"],
     [variant |-> "AdcAbsX", payload |-> "Address", opcode |-> 125, operand |-> "AbsX"],
     [variant |-> "RorAbsX", payload |-> "Address", opcode |-> 126, operand |-> "AbsX"],
     [variant |-> "RraAbsX", payload |-> "Address", opcode |-> 127, operand |-> "AbsX"],
     [variant |-> "NopImm80", payload |-> "u8", opcode |-> 128, operand |-> "Imm"],
     [variant |-> "StaIndX", payload |-> "ZpAddress", opcode |-> 129, operand |-> "IndX"],
     [variant |-> "NopImm82", payload |-> "u8", opcode |-> 130, operand |-> "Imm"],
     [variant |-> "SaxIndX", payload |-> "ZpAddress", opcode |-> 131, operand |-> "IndX"],
     [variant |-> "StyZp", payload |-> "ZpAddress", opcode |-> 132, operand |-> "Zp"],
     [variant |-> "StaZp", payload |-> "ZpAddress", opcode |-> 133, operand |-> "Zp"],
     [variant |-> "StxZp", payload |-> "ZpAddress", opcode |-> 134, operand |-> "Zp"],
     [variant |-> "SaxZp", payload |-> "ZpAddress", opcode |-> 135, operand |-> "Zp"],
     [variant |-> "Dey", payload |-> "none", opcode |-> 136, operand |-> "Imp"],
     [variant |-> "NopImm89", payload |-> "u8", opcode |-> 137, operand |-> "Imm"],
     [variant |-> "Txa", payload |-> "none", opcode |-> 138, operand |-> "Imp"],
     [variant |-> "Xaa", payload |-> "u8", opcode |-> 139, operand |-> "Imm"],
     [variant |-> "StyAbs", payload |-> "Address", opcode |-> 140, operand |-> "Abs"],
     [variant |-> "StaAbs", payload |-> "Address", opcode |-> 141, operand |-> "Abs"],
     [variant |-> "StxAbs", payload |-> "Address", opcode |-> 142, operand |-> "Abs"],
     [variant |-> "SaxAbs", payload |-> "Address", opcode |-> 143, operand |-> "Abs"],
     [variant |-> "Bcc", payload |-> "i8", opcode |-> 144, operand |-> "Rel"],
     [variant |-> "StaIndY", payload |-> "ZpAddress", opcode |-> 145, operand |-> "IndY"],
     [variant |-> "Kil92", payload |-> "none", opcode |-> 146, operand |-> "Imp"],
     [variant |-> "AhxIndY", payload |-> "ZpAddress", opcode |-> 147, operand |-> "IndY"],
     [variant |-> "StyZpX", payload |-> "ZpAddress", opcode |-> 148, operand |-> "ZpX"],
     [variant |-> "StaZpX", payload |-> "ZpAddress", opcode |-> 149, operand |-> "ZpX"],
     [variant |-> "StxZpY", payload |-> "ZpAddress", opcode |-> 150, operand |-> "ZpY"],
     [variant |-> "SaxZpY", payload |-> "ZpAddress", opcode |-> 151, operand |-> "ZpY"],
     [variant |-> "Tya", payload |-> "none", opcode |-> 152, operand |-> "Imp"],
     [variant |-> "StaAbsY", payload |-> "Address", opcode |-> 153, operand |-> "AbsY"],
     [variant |-> "Txs", payload |-> "none", opcode |-> 154, operand |-> "Imp"],
     [variant |-> "Tas", payload |-> "Address", opcode |-> 155, operand |-> "AbsY"],
     [variant |-> "Shy", payload |-> "Address", opcode |-> 156, operand |-> "AbsX"],
     [variant |-> "StaAbsX", payload |-> "Address", opcode |-> 157, operand |-> "AbsX"],
     [variant |-> "Shx", payload |-> "Address", opcode |-> 158, operand |-> "AbsY"],
     [variant |-> "AhxAbsY", payload |-> "Address", opcode |-> 159, operand |-> "AbsY"],
     [variant |-> "LdyImm", payload |-> "u8", opcode |-> 160, operand |-> "Imm"],
     [variant |-> "LdaIndX", payload |-> "ZpAddress", opcode |-> 161, operand |-> "IndX"],
     [variant |-> "LdxImm", payload |-> "u8", opcode |-> 162, operand |-> "Imm"],
     [variant |-> "LaxIndX", payload |-> "ZpAddress", opcode |-> 163, operand |-> "IndX"],
     [variant |-> "LdyZp", payload |-> "ZpAddress", opcode |-> 164, operand |-> "Zp"],
     [variant |-> "LdaZp", payload |-> "ZpAddress", opcode |-> 165, operand |-> "Zp"],
     [variant |-> "LdxZp", payload |-> "ZpAddress", opcode |-> 166, operand |-> "Zp"],
     [variant |-> "LaxZp", payload |-> "ZpAddress", opcode |-> 167, operand |-> "Zp"],
     [variant |-> "Tay", payload |-> "none", opcode |-> 168, operand |-> "Imp"],
     [variant |-> "LdaImm", payload |-> "u8", opcode |-> 169, operand |-> "Imm"],
     [variant |-> "Tax", payload |-> "none", opcode |-> 170, operand |-> "Imp"],
     [variant |-> "LaxImm", payload |-> "u8", opcode |-> 171, operand |-> "Imm"],
     [variant |-> "LdyAbs", payload |-> "Address", opcode |-> 172, operand |-> "Abs"],
     [variant |-> "LdaAbs", payload |-> "Address", opcode |-> 173, operand |-> "Abs"],
     [variant |-> "LdxAbs", payload |-> "Address", opcode |-> 174, operand |-> "Abs"],
     [variant |-> "LaxAbs", payload |-> "Address", opcode |-> 175, operand |-> "Abs"],
     [variant |-> "Bcs", payload |-> "i8", opcode |-> 176, operand |-> "Rel"],
     [variant |-> "LdaIndY", payload |-> "ZpAddress", opcode |-> 177, operand |-> "IndY"],
     [variant |-> "KilB2", payload |-> "none", opcode |-> 178, operand |-> "Imp"],
     [variant |-> "LaxIndY", payload |-> "ZpAddress", opcode |-> 179, operand |-> "IndY"],
     [variant |-> "LdyZpX", payload |-> "ZpAddress", opcode |-> 180, operand |-> "ZpX"],
     [variant |-> "LdaZpX", payload |-> "ZpAddress", opcode |-> 181, operand |-> "ZpX"],
     [variant |-> "LdxZpY", payload |-> "ZpAddress", opcode |-> 182, operand |-> "ZpY"],
     [variant |-> "LaxZpY", payload |-> "ZpAddress", opcode |-> 183, operand |-> "ZpY"],
     [variant |-> "Clv", payload |-> "none", opcode |-> 184, operand |-> "Imp"],
     [variant |-> "LdaAbsY", payload |-> "Address", opcode |-> 185, operand |-> "AbsY"],
     [variant |-> "Tsx", payload |-> "none", opcode |-> 186, operand |-> "Imp"],
     [variant |-> "Las", payload |-> "Address", opcode |-> 187, operand |-> "AbsY"],
     [variant |-> "LdyAbsX", payload |-> "Address", opcode |-> 188, operand |-> "AbsX"],
     [variant |-> "LdaAbsX", payload |-> "Address", opcode |-> 189, operand |-> "AbsX"],
     [variant |-> "LdxAbsY", payload |-> "Address", opcode |-> 190, operand |-> "AbsY"],
     [variant |-> "LaxAbsY", payload |-> "Address", opcode |-> 191, operand |-> "AbsY"],
     [variant |-> "CpyImm", payload |-> "u8", opcode |-> 192, operand |-> "Imm"],
     [variant |-> "CmpIndX", payload |-> "ZpAddress", opcode |-> 193, operand |-> "IndX"],
     [variant |-> "NopImmC2", payload |-> "u8", opcode |-> 194, operand |-> "Imm"],
     [variant |-> "DcpIndX", payload |-> "ZpAddress", opcode |-> 195, operand |-> "IndX"],
     [variant |-> "CpyZp", payload |-> "ZpAddress", opcode |-> 196, operand |-> "Zp"],
     [variant |-> "CmpZp", payload |-> "ZpAddress", opcode |-> 197, operand |-> "Zp"],
     [variant |-> "DecZp", payload |-> "ZpAddress", opcode |-> 198, operand |-> "Zp"],
     [variant |-> "DcpZp", payload |-> "ZpAddress", opcode |-> 199, operand |-> "Zp"],
     [variant |-> "Iny", payload |-> "none", opcode |-> 200, operand |-> "Imp"],
     [variant |-> "CmpImm", payload |-> "u8", opcode |-> 201, operand |-> "Imm"],
     [variant |-> "Dex", payload |-> "none", opcode |-> 202, operand |-> "Imp"],
     [variant |-> "Axs", payload |-> "u8", opcode |-> 203, operand |-> "Imm"],
     [variant |-> "CpyAbs", payload |-> "Address", opcode |-> 204, operand |-> "Abs"],
     [variant |-> "CmpAbs", payload |-> "Address", opcode |-> 205, operand |-> "Abs"],
     [variant |-> "DecAbs", payload |-> "Address", opcode |-> 206, operand |-> "Abs"],
     [variant |-> "DcpAbs", payload |-> "Address", opcode |-> 207, operand |-> "Abs"],
     [variant |-> "Bne", payload |-> "i8", opcode |-> 208, operand |-> "Rel"],
     [variant |-> "CmpIndY", payload |-> "ZpAddress", opcode |-> 209, operand |-> "IndY"],
     [variant |-> "KilD2", payload |-> "none", opcode |-> 210, operand |-> "Imp"],
     [variant |-> "DcpIndY", payload |-> "ZpAddress", opcode |-> 211, operand |-> "IndY"],
     [variant |-> "NopZpXD4", payload |-> "ZpAddress", opcode |-> 212, operand |-> "ZpX"],
     [variant |-> "CmpZpX", payload |-> "ZpAddress", opcode |-> 213, operand |-> "ZpX"],
     [variant |-> "DecZpX", payload |-> "ZpAddress", opcode |-> 214, operand |-> "ZpX"],
     [variant |-> "DcpZpX", payload |-> "ZpAddress", opcode |-> 215, operand |-> "ZpX"],
     [variant |-> "Cld", payload |-> "none", opcode |-> 216, operand |-> "Imp"],
     [variant |-> "CmpAbsY", payload |-> "Address", opcode |-> 217, operand |-> "AbsY"],
     [variant |-> "NopDA", payload |-> "none", opcode |-> 218, operand |-> "Imp"],
     [variant |-> "DcpAbsY", payload |-> "Address", opcode |-> 219, operand |-> "AbsY"],
     [variant |-> "NopAbsXDC", payload |-> "Address", opcode |-> 220, operand |-> "AbsX"],
     [variant |-> "CmpAbsX", payload |-> "Address", opcode |-> 221, operand |-> "AbsX"],
     [variant |-> "DecAbsX", payload |-> "Address", opcode |-> 222, operand |-> "AbsX"],
     [variant |-> "DcpAbsX", payload |-> "Address", opcode |-> 223, operand |-> "AbsX"],
     [variant |-> "CpxImm", payload |-> "u8", opcode |-> 224, operand |-> "Imm"],
     [variant |-> "SbcIndX", payload |-> "ZpAddress", opcode |-> 225, operand |-> "IndX"],
     [variant |-> "NopImmE2", payload |-> "u8", opcode |-> 226, operand |-> "Imm"],
     [variant |-> "IscIndX", payload |-> "ZpAddress", opcode |-> 227, operand |-> "IndX"],
     [variant |-> "CpxZp", payload |-> "ZpAddress", opcode |-> 228, operand |-> "Zp"],
     [variant |-> "SbcZp", payload |-> "ZpAddress", opcode |-> 229, operand |-> "Zp"],
     [variant |-> "IncZp", payload |-> "ZpAddress", opcode |-> 230, operand |-> "Zp"],
     [variant |-> "IscZp", payload |-> "ZpAddress", opcode |-> 231, operand |-> "Zp"],
     [variant |-> "Inx", payload |-> "none", opcode |-> 232, operand |-> "Imp"],
     [variant |-> "SbcImmE9", payload |-> "u8", opcode |-> 233, operand |-> "Imm"],
     [variant |-> "NopEA", payload |-> "none", opcode |-> 234, operand |-> "Imp"],
     [variant |-> "SbcImmEB", payload |-> "u8", opcode |-> 235, operand |-> "Imm"],
     [variant |-> "CpxAbs", payload |-> "Address", opcode |-> 236, operand |-> "Abs"],
     [variant |-> "SbcAbs", payload |-> "Address", opcode |-> 237, operand |-> "Abs"],
     [variant |-> "IncAbs", payload |-> "Address", opcode |-> 238, operand |-> "Abs"],
     [variant |-> "IscAbs", payload |-> "Address", opcode |-> 239, operand |-> "Abs"],
     [variant |-> "Beq", payload |-> "i8", opcode |-> 240, operand |-> "Rel"],
     [variant |-> "SbcIndY", payload |-> "ZpAddress", opcode |-> 241, operand |-> "IndY"],
     [variant |-> "KilF2", payload |-> "none", opcode |-> 242, operand |-> "Imp"],
     [variant |-> "IscIndY", payload |-> "ZpAddress", opcode |-> 243, operand |-> "IndY"],
     [variant |-> "NopZpXF4", payload |-> "ZpAddress", opcode |-> 244, operand |-> "ZpX"],
     [variant |-> "SbcZpX", payload |-> "ZpAddress", opcode |-> 245, operand |-> "ZpX"],
     [variant |-> "IncZpX", payload |-> "ZpAddress", opcode |-> 246, operand |-> "ZpX"],
     [variant |-> "IscZpX", payload |-> "ZpAddress", opcode |-> 247, operand |-> "ZpX"],
     [variant |-> "Sed", payload |-> "none", opcode |-> 248, operand |-> "Imp"],
     [variant |-> "SbcAbsY", payload |-> "Address", opcode |-> 249, operand |-> "AbsY"],
     [variant |-> "NopFA", payload |-> "none", opcode |-> 250, operand |-> "Imp"],
     [variant |-> "IscAbsY", payload |-> "Address", opcode |-> 251, operand |-> "AbsY"],
     [variant |-> "NopAbsXFC", payload |-> "Address", opcode |-> 252, operand |-> "AbsX"],
     [variant |-> "SbcAbsX", payload |-> "Address", opcode |-> 253, operand |-> "AbsX"],
     [variant |-> "IncAbsX", payload |-> "Address", opcode |-> 254, operand |-> "AbsX"],
     [variant |-> "IscAbsX", payload |-> "Address", opcode |-> 255, operand |-> "AbsX"] >>

FETCH_TABLE ==
  << [variant |-> "Brk", fetch |-> "none"],
     [variant |-> "OraIndX", fetch |-> "zp"],
     [variant |-> "Kil02", fetch |-> "none"],
     [variant |-> "SloIndX", fetch |-> "zp"],
     [variant |-> "NopZp04", fetch |-> "zp"],
     [variant |-> "OraZp", fetch |-> "zp"],
     [variant |-> "AslZp", fetch |-> "zp"],
     [variant |-> "SloZp", fetch |-> "zp"],
     [variant |-> "Php", fetch |-> "none"],
     [variant |-> "OraImm", fetch |-> "imm"],
     [variant |-> "AslAcc", fetch |-> "none"],
     [variant |-> "Anc0B", fetch |-> "imm"],
     [variant |-> "NopAbs", fetch |-> "abs"],
     [variant |-> "OraAbs", fetch |-> "abs"],
     [variant |-> "AslAbs", fetch |-> "abs"],
     [variant |-> "SloAbs", fetch |-> "abs"],
     [variant |-> "Bpl", fetch |-> "rel"],
     [variant |-> "OraIndY", fetch |-> "zp"],
     [variant |-> "Kil12", fetch |-> "none"],
     [variant |-> "SloIndY", fetch |-> "zp"],
     [variant |-> "NopZpX14", fetch |-> "zp"],
     [variant |-> "OraZpX", fetch |-> "zp"],
     [variant |-> "AslZpX", fetch |-> "zp"],
     [variant |-> "SloZpX", fetch |-> "zp"],
     [variant |-> "Clc", fetch |-> "none"],
     [variant |-> "OraAbsY", fetch |-> "abs"],
     [variant |-> "Nop1A", fetch |-> "none"],
     [variant |-> "SloAbsY", fetch |-> "abs"],
     [variant |-> "NopAbsX1C", fetch |-> "abs"],
     [variant |-> "OraAbsX", fetch |-> "abs"],
     [variant |-> "AslAbsX", fetch |-> "abs"],
     [variant |-> "SloAbsX", fetch |-> "abs"],
     [variant |-> "Jsr", fetch |-> "abs"],
     [variant |-> "AndIndX", fetch |-> "zp"],
     [variant |-> "Kil22", fetch |-> "none"],
     [variant |-> "RlaIndX", fetch |-> "zp"],
     [variant |-> "BitZp", fetch |-> "zp"],
     [variant |-> "AndZp", fetch |-> "zp"],
     [variant |-> "RolZp", fetch |-> "zp"],
     [variant |-> "RlaZp", fetch |-> "zp"],
     [variant |-> "Plp", fetch |-> "none"],
     [variant |-> "AndImm", fetch |-> "imm"],
     [variant |-> "RolAcc", fetch |-> "none"],
     [variant |-> "Anc2B", fetch |-> "imm"],
     [variant |-> "BitAbs", fetch |-> "abs"],
     [variant |-> "AndAbs", fetch |-> "abs"],
     [variant |-> "RolAbs", fetch |-> "abs"],
     [variant |-> "RlaAbs", fetch |-> "abs"],
     [variant |-> "Bmi", fetch |-> "rel"],
     [variant |-> "AndIndY", fetch |-> "zp"],
     [variant |-> "Kil32", fetch |-> "none"],
     [variant |-> "RlaIndY", fetch |-> "zp"],
     [variant |-> "NopZpX34", fetch |-> "zp"],
     [variant |-> "AndZpX", fetch |-> "zp"],
     [variant |-> "RolZpX", fetch |-> "zp"],
     [variant |-> "RlaZpX", fetch |-> "zp"],
     [variant |-> "Sec", fetch |-> "none"],
     [variant |-> "AndAbsY", fetch |-> "abs"],
     [variant |-> "Nop3A", fetch |-> "none"],
     [variant |-> "RlaAbsY", fetch |-> "abs"],
     [variant |-> "NopAbsX3C", fetch |-> "abs"],
     [variant |-> "AndAbsX", fetch |-> "abs"],
     [variant |-> "RolAbsX", fetch |-> "abs"],
     [variant |-> "RlaAbsX", fetch |-> "abs"],
     [variant |-> "Rti", fetch |-> "none"],
     [variant |-> "EorIndX", fetch |-> "zp"],
     [variant |-> "Kil42", fetch |-> "none"],
     [variant |-> "SreIndX", fetch |-> "zp"],
     [variant |-> "NopZp44", fetch |-> "zp"],
     [variant |-> "EorZp", fetch |-> "zp"],
     [variant |-> "LsrZp", fetch |-> "zp"],
     [variant |-> "SreZp", fetch |-> "zp"],
     [variant |-> "Pha", fetch |-> "none"],
     [variant |-> "EorImm", fetch |-> "imm"],
     [variant |-> "LsrAcc", fetch |-> "none"],
     [variant |-> "Alr", fetch |-> "imm"],
     [variant |-> "JmpAbs", fetch |-> "abs"],
     [variant |-> "EorAbs", fetch |-> "abs"],
     [variant |-> "LsrAbs", fetch |-> "abs"],
     [variant |-> "SreAbs", fetch |-> "abs"],
     [variant |-> "Bvc", fetch |-> "rel"],
     [variant |-> "EorIndY", fetch |-> "zp"],
     [variant |-> "Kil52", fetch |-> "none"],
     [variant |-> "SreIndY", fetch |-> "zp"],
     [variant |-> "NopZpX54", fetch |-> "zp"],
     [variant |-> "EorZpX", fetch |-> "zp"],
     [variant |-> "LsrZpX", fetch |-> "zp"],
     [variant |-> "SreZpX", fetch |-> "zp"],
     [variant |-> "Cli", fetch |-> "none"],
     [variant |-> "EorAbsY", fetch |-> "abs"],
     [variant |-> "Nop5A", fetch |-> "none"],
     [variant |-> "SreAbsY", fetch |-> "abs"],
     [variant |-> "NopAbsX5C", fetch |-> "abs"],
     [variant |-> "EorAbsX", fetch |-> "abs"],
     [variant |-> "LsrAbsX", fetch |-> "abs"],
     [variant |-> "SreAbsX", fetch |-> "abs"],
     [variant |-> "Rts", fetch |-> "none"],
     [variant |-> "AdcIndX", fetch |-> "zp"],
     [variant |-> "Kil62", fetch |-> "none"],
     [variant |-> "RraIndX", fetch |-> "zp"],
     [variant |-> "NopZp64", fetch |-> "zp"],
     [variant |-> "AdcZp", fetch |-> "zp"],
     [variant |-> "RorZp", fetch |-> "zp"],
     [variant |-> "RraZp", fetch |-> "zp"],
     [variant |-> "Pla", fetch |-> "none"],
     [variant |-> "AdcImm", fetch |-> "imm"],
     [variant |-> "RorAcc", fetch |-> "none"],
     [variant |-> "Arr", fetch |-> "imm"],
     [variant |-> "JmpInd", fetch |-> "abs"],
     [variant |-> "AdcAbs", fetch |-> "abs"],
     [variant |-> "RorAbs", fetch |-> "abs"],
     [variant |-> "RraAbs", fetch |-> "abs"],
     [variant |-> "Bvs", fetch |-> "rel"],
     [variant |-> "AdcIndY", fetch |-> "zp"],
     [variant |-> "Kil72", fetch |-> "none"],
     [variant |-> "RraIndY", fetch |-> "zp"],
     [variant |-> "NopZpX74", fetch |-> "zp"],
     [variant |-> "AdcZpX", fetch |-> "zp"],
     [variant |-> "RorZpX", fetch |-> "zp"],
     [variant |-> "RraZpX", fetch |-> "zp"],
     [variant |-> "Sei", fetch |-> "none"],
     [variant |-> "AdcAbsY", fetch |-> "abs"],
     [variant |-> "Nop7A", fetch |-> "none"],
     [variant |-> "RraAbsY", fetch |-> "abs"],
     [variant |-> "NopAbsX7C", fetch |-> "abs"],
     [variant |-> "AdcAbsX", fetch |-> "abs"],
     [variant |-> "RorAbsX", fetch |-> "abs"],
     [variant |-> "RraAbsX", fetch |-> "abs"],
     [variant |-> "NopImm80", fetch |-> "imm"],
     [variant |-> "StaIndX", fetch |-> "zp"],
     [variant |-> "NopImm82", fetch |-> "imm"],
     [variant |-> "SaxIndX", fetch |-> "zp"],
     [variant |-> "StyZp", fetch |-> "zp"],
     [variant |-> "StaZp", fetch |-> "zp"],
     [variant |-> "StxZp", fetch |-> "zp"],
     [variant |-> "SaxZp", fetch |-> "zp"],
     [variant |-> "Dey", fetch |-> "none"],
     [variant |-> "NopImm89", fetch |-> "imm"],
     [variant |-> "Txa", fetch |-> "none"],
     [variant |-> "Xaa", fetch |-> "imm"],
     [variant |-> "StyAbs", fetch |-> "abs"],
     [variant |-> "StaAbs", fetch |-> "abs"],
     [variant |-> "StxAbs", fetch |-> "abs"],
     [variant |-> "SaxAbs", fetch |-> "abs"],
     [variant |-> "Bcc", fetch |-> "rel"],
     [variant |-> "StaIndY", fetch |-> "zp"],
     [variant |-> "Kil92", fetch |-> "none"],
     [variant |-> "AhxIndY", fetch |-> "zp"],
     [variant |-> "StyZpX", fetch |-> "zp"],
     [variant |-> "StaZpX", fetch |-> "zp"],
     [variant |-> "StxZpY", fetch |-> "zp"],
     [variant |-> "SaxZpY", fetch |-> "zp"],
     [variant |-> "Tya", fetch |-> "none"],
     [variant |-> "StaAbsY", fetch |-> "abs"],
     [variant |-> "Txs", fetch |-> "none"],
     [variant |-> "Tas", fetch |-> "abs"],
     [variant |-> "Shy", fetch |-> "abs"],
     [variant |-> "StaAbsX", fetch |-> "abs"],
     [variant |-> "Shx", fetch |-> "abs"],
     [variant |-> "AhxAbsY", fetch |-> "abs"],
     [variant |-> "LdyImm", fetch |-> "imm"],
     [variant |-> "LdaIndX", fetch |-> "zp"],
     [variant |-> "LdxImm", fetch |-> "imm"],
     [variant |-> "LaxIndX", fetch |-> "zp"],
     [variant |-> "LdyZp", fetch |-> "zp"],
     [variant |-> "LdaZp", fetch |-> "zp"],
     [variant |-> "LdxZp", fetch |-> "zp"],
     [variant |-> "LaxZp", fetch |-> "zp"],
     [variant |-> "Tay", fetch |-> "none"],
     [variant |-> "LdaImm", fetch |-> "imm"],
     [variant |-> "Tax", fetch |-> "none"],
     [variant |-> "LaxImm", fetch |-> "imm"],
     [variant |-> "LdyAbs", fetch |-> "abs"],
     [variant |-> "LdaAbs", fetch |-> "abs"],
     [variant |-> "LdxAbs", fetch |-> "abs"],
     [variant |-> "LaxAbs", fetch |-> "abs"],
     [variant |-> "Bcs", fetch |-> "rel"],
     [variant |-> "LdaIndY", fetch |-> "zp"],
     [variant |-> "KilB2", fetch |-> "none"],
     [variant |-> "LaxIndY", fetch |-> "zp"],
     [variant |-> "LdyZpX", fetch |-> "zp"],
     [variant |-> "LdaZpX", fetch |-> "zp"],
     [variant |-> "LdxZpY", fetch |-> "zp"],
     [variant |-> "LaxZpY", fetch |-> "zp"],
     [variant |-> "Clv", fetch |-> "none"],
     [variant |-> "LdaAbsY", fetch |-> "abs"],
     [variant |-> "Tsx", fetch |-> "none"],
     [variant |-> "Las", fetch |-> "abs"],
     [variant |-> "LdyAbsX", fetch |-> "abs"],
     [variant |-> "LdaAbsX", fetch |-> "abs"],
     [variant |-> "LdxAbsY", fetch |-> "abs"],
     [variant |-> "LaxAbsY", fetch |-> "abs"],
     [variant |-> "CpyImm", fetch |-> "imm"],
     [variant |-> "CmpIndX", fetch |-> "zp"],
     [variant |-> "NopImmC2", fetch |-> "imm"],
     [variant |-> "DcpIndX", fetch |-> "zp"],
     [variant |-> "CpyZp", fetch |-> "zp"],
     [variant |-> "CmpZp", fetch |-> "zp"],
     [variant |-> "DecZp", fetch |-> "zp"],
     [variant |-> "DcpZp", fetch |-> "zp"],
     [variant |-> "Iny", fetch |-> "none"],
     [variant |-> "CmpImm", fetch |-> "imm"],
     [variant |-> "Dex", fetch |-> "none"],
     [variant |-> "Axs", fetch |-> "imm"],
     [variant |-> "CpyAbs", fetch |-> "abs"],
     [variant |-> "CmpAbs", fetch |-> "abs"],
     [variant |-> "DecAbs", fetch |-> "abs"],
     [variant |-> "DcpAbs", fetch |-> "abs"],
     [variant |-> "Bne", fetch |-> "rel"],
     [variant |-> "CmpIndY", fetch |-> "zp"],
     [variant |-> "KilD2", fetch |-> "none"],
     [variant |-> "DcpIndY", fetch |-> "zp"],
     [variant |-> "NopZpXD4", fetch |-> "zp"],
     [variant |-> "CmpZpX", fetch |-> "zp"],
     [variant |-> "DecZpX", fetch |-> "zp"],
     [variant |-> "DcpZpX", fetch |-> "zp"],
     [variant |-> "Cld", fetch |-> "none"],
     [variant |-> "CmpAbsY", fetch |-> "abs"],
     [variant |-> "NopDA", fetch |-> "none"],
     [variant |-> "DcpAbsY", fetch |-> "abs"],
     [variant |-> "NopAbsXDC", fetch |-> "abs"],
     [variant |-> "CmpAbsX", fetch |-> "abs"],
     [variant |-> "DecAbsX", fetch |-> "abs"],
     [variant |-> "DcpAbsX", fetch |-> "abs"],
     [variant |-> "CpxImm", fetch |-> "imm"],
     [variant |-> "SbcIndX", fetch |-> "zp"],
     [variant |-> "NopImmE2", fetch |-> "imm"],
     [variant |-> "IscIndX", fetch |-> "zp"],
     [variant |-> "CpxZp", fetch |-> "zp"],
     [variant |-> "SbcZp", fetch |-> "zp"],
     [variant |-> "IncZp", fetch |-> "zp"],
     [variant |-> "IscZp", fetch |-> "zp"],
     [variant |-> "Inx", fetch |-> "none"],
     [variant |-> "SbcImmE9", fetch |-> "imm"],
     [variant |-> "NopEA", fetch |-> "none"],
     [variant |-> "SbcImmEB", fetch |-> "imm"],
     [variant |-> "CpxAbs", fetch |-> "abs"],
     [variant |-> "SbcAbs", fetch |-> "abs"],
     [variant |-> "IncAbs", fetch |-> "abs"],
     [variant |-> "IscAbs", fetch |-> "abs"],
     [variant |-> "Beq", fetch |-> "rel"],
     [variant |-> "SbcIndY", fetch |-> "zp"],
     [variant |-> "KilF2", fetch |-> "none"],
     [variant |-> "IscIndY", fetch |-> "zp"],
     [variant |-> "NopZpXF4", fetch |-> "zp"],
     [variant |-> "SbcZpX", fetch |-> "zp"],
     [variant |-> "IncZpX", fetch |-> "zp"],
     [variant |-> "IscZpX", fetch |-> "zp"],
     [variant |-> "Sed", fetch |-> "none"],
     [variant |-> "SbcAbsY", fetch |-> "abs"],
     [variant |-> "NopFA", fetch |-> "none"],
     [variant |-> "IscAbsY", fetch |-> "abs"],
     [variant |-> "NopAbsXFC", fetch |-> "abs"],
     [variant |-> "SbcAbsX", fetch |-> "abs"],
     [variant |-> "IncAbsX", fetch |-> "abs"],
     [variant |-> "IscAbsX", fetch |-> "abs"] >>

OpInfo(variant) ==
  CHOOSE r \in {OP_VARIANTS[i] : i \in DOMAIN OP_VARIANTS} : r.variant = variant

\* Op::opcode on o = [variant, arg]
Op_opcode(o) == OpInfo(o.variant).opcode

\* Op::operand on o = [variant, arg]
Op_variant_operand(o) == [kind |-> OpInfo(o.variant).operand, val |-> o.arg]

\* An encoding of the operand with the high byte first.
Operand_to_bytes_be(operand) ==
  CASE operand.kind \in {"Imp", "Acc"} -> << >>
    [] operand.kind \in {"Imm", "Zp", "ZpX", "ZpY", "IndX", "IndY"} -> << operand.val >>
    [] operand.kind \in {"Abs", "AbsX", "AbsY", "Ind"} ->
         << operand.val \div 256, operand.val % 256 >>
    [] operand.kind = "Rel" -> << (operand.val + 256) % 256 >>

\* Operand::to_bytes: to_le_bytes of the payload (u8, u16, or i8 in two's
\* complement).
Operand_to_bytes(operand) ==
  CASE operand.kind \in {"Imp", "Acc"} -> << >>
    [] operand.kind \in {"Imm", "Zp", "ZpX", "ZpY", "IndX", "IndY"} -> << operand.val >>
    [] operand.kind \in {"Abs", "AbsX", "AbsY", "Ind"} ->
         << operand.val % 256, operand.val \div 256 >>
    [] operand.kind = "Rel" -> << (operand.val + 256) % 256 >>

\* Op::to_bytes
Op_to_bytes(o) == << Op_opcode(o) >> \o Operand_to_bytes(Op_variant_operand(o))

\* Op::fetch building the variant: [panic, op]; panic is a failed assertion
\* (an empty buffer, or a buffer whose length is not the length of the
\* instruction).
Op_fetch_variant(buf) ==
  LET build(e) ==
        [panic |-> FALSE,
         op |-> [variant |-> e.variant,
                 arg |-> CASE e.fetch = "none" -> 0
                           [] e.fetch \in {"imm", "zp"} -> buf[2]
                           [] e.fetch = "abs" -> from_le_bytes(buf[2], buf[3])
                           [] e.fetch = "rel" ->
                                IF buf[2] >= 128 THEN buf[2] - 256 ELSE buf[2]]]
  IN  IF buf = << >> THEN [panic |-> TRUE]
      ELSE IF Len(buf) - 1 # operand_len(buf[1]) THEN [panic |-> TRUE]
      ELSE build(FETCH_TABLE[buf[1] + 1])

(***************************************************************************)
(* memory.rs: Memory::new with its reverse index.  The index is an         *)
(* ArrayByAddress of Option<usize>, None by default, filled with Some(id)  *)
(* over the range of each bank, in the order of the banks.                 *)
(***************************************************************************)
RECURSIVE fill_bank_ids(_, _)
fill_bank_ids(banks, n) ==
  LET fill(prev, range) ==
        [prev EXCEPT !.at = [a \in DOMAIN prev.at |->
                               IF range_contains_addr(range, a) THEN Some(n - 1) ELSE prev.at[a]]]
  IN  IF n = 0
      THEN [at |-> [a \in UNION {Bank_addr_range(banks[i]).min .. Bank_addr_range(banks[i]).max :
                                   i \in 1 .. Len(banks)} |-> None],
            rest |-> None]
      ELSE fill(fill_bank_ids(banks, n - 1), Bank_addr_range(banks[n]))

\* Memory::new: [panic], or the memory [banks, bank_ids]
Memory_new(banks) ==
  IF ~Memory_new_ok(banks)
  THEN [panic |-> TRUE]
  ELSE [panic |-> FALSE, banks |-> banks, bank_ids |-> fill_bank_ids(banks, Len(banks))]

\* Memory::find_bank_id on a memory built by Memory::new
Memory_find_bank_id(m, a) == Get(m.bank_ids, a)

(***************************************************************************)
(* input.rs, config.rs                                                     *)
(*   input  = [memory, permissions, cdl, target_bank_id, target_bank_name] *)
(*   config = [use_nmi, use_reset, use_irq, allow_brk, allow_clv,          *)
(*             allow_sed]                                                  *)
(* The passes below take env = [input, config] and the pipeline state      *)
(* st = [analysis, labels, panic]; panic records that the pass reached a   *)
(* panicking call (a failed assertion, an unwrap of None, unreachable!).   *)
(***************************************************************************)
target_bank(input) == input.memory[input.target_bank_id + 1]

AnalysisConfig_default ==
  [use_nmi |-> TRUE, use_reset |-> TRUE, use_irq |-> TRUE,
   allow_brk |-> FALSE, allow_clv |-> FALSE, allow_sed |-> FALSE]

\* A loop `for addr in <addresses ascending>` whose body is Body.
RECURSIVE ForEach(_, _, _, _)
ForEach(Body(_, _, _), st, env, addrs) ==
  IF addrs = << >> THEN st
  ELSE ForEach(Body, Body(st, env, Head(addrs)), env, Tail(addrs))

\* Address::all() over the tracked cells.
AllTracked(st) == Ascending(DOMAIN st.analysis.at)

(***************************************************************************)
(* analysis/cdl.rs (Pass 1)                                                *)
(***************************************************************************)
\* A CDL rule that looks at the data bit first.
cdl_kind_data_first(old, e) ==
  IF Bit(e, 1) THEN "NotCode" ELSE IF Bit(e, 0) THEN "Code" ELSE old

\* The classification the loop body leaves at an address whose CDL byte is e.
cdl_kind(old, e) ==
  IF Bit(e, 0) THEN "Code" ELSE IF Bit(e, 1) THEN "NotCode" ELSE old

cdl_analyze_addr(st, env, addr) ==
  LET cdl == env.input.cdl
      a1  == Put(st.analysis, addr, cdl_kind(Get(st.analysis, addr), Get(cdl, addr)))
      need_label ==
        \/ Cdl_is_jump_target(cdl, addr)
        \/ Cdl_is_entrypoint(cdl, addr)
        \/ Cdl_is_indirect_data_start(cdl, addr)
        \/ Cdl_is_pcm_data_start(cdl, addr)
      l1  == IF Bank_contains_addr(target_bank(env.input), addr) /\ need_label
             THEN Labels_set(st.labels, addr, Label_new(Cdl_is_entrypoint(cdl, addr)))
             ELSE st.labels
  IN  [st EXCEPT !.analysis = a1, !.labels = l1]

cdl_analyze(st, env) ==
  LET s1 == ForEach(cdl_analyze_addr, st, env, AllTracked(st))
  IN  [s1 EXCEPT !.analysis.rest = cdl_kind(st.analysis.rest, env.input.cdl.rest)]

(***************************************************************************)
(* analysis/permission.rs (Pass 2)                                         *)
(***************************************************************************)
\* A permission rule that overwrites Code.
permission_kind_overwrite(old, perm) ==
  IF ~is_executable(perm) THEN "NotCode" ELSE old

\* A permission rule that leaves every classification as it is.
permission_kind_keep(old, perm) == old

permission_kind(old, perm) ==
  IF ~is_executable(perm)
  THEN (IF old = "Code" THEN old ELSE "NotCode")
  ELSE old

permission_analyze_addr(st, env, addr) ==
  [st EXCEPT !.analysis =
     Put(@, addr, permission_kind(Get(@, addr), Get(env.input.permissions, addr)))]

permission_analyze(st, env) ==
  LET s1 == ForEach(permission_analyze_addr, st, env, AllTracked(st))
  IN  [s1 EXCEPT !.analysis.rest =
         permission_kind(st.analysis.rest, env.input.permissions.rest)]

(***************************************************************************)
(* analysis/interrupt.rs (Pass 3)                                          *)
(***************************************************************************)
\* A set_handler that makes NotCode each vector byte that is not Code.
set_handler_bytewise(st, env, ptr) ==
  LET input == env.input
      a0 == IF Get(st.analysis, ptr) # "Code" THEN Put(st.analysis, ptr, "NotCode")
            ELSE st.analysis
      a1 == IF Get(a0, ptr + 1) # "Code" THEN Put(a0, ptr + 1, "NotCode") ELSE a0
      l1 == IF Bank_contains_addr(target_bank(input), ptr)
            THEN Labels_set(st.labels, ptr, Label_new(FALSE))
            ELSE st.labels
      got == fetch_addr(input.memory, ptr)
  IN  IF got = None THEN [st EXCEPT !.analysis = a1, !.labels = l1]
      ELSE LET dst     == Unwrap(got).addr
               bank_id == Unwrap(got).bank_id
           IN  IF Get(a1, dst) = "NotCode"
               THEN [st EXCEPT !.analysis = a1, !.labels = l1]
               ELSE [st EXCEPT
                       !.analysis = Put(a1, dst, "Code"),
                       !.labels = IF input.target_bank_id = bank_id
                                  THEN Labels_set(l1, dst, Label_new(TRUE))
                                  ELSE l1]

\* A set_handler that makes the handler Code whatever it was.
set_handler_forced(st, env, ptr) ==
  LET input == env.input
      \* the vector bytes become NotCode unless one of them is Code
      a1 == IF Get(st.analysis, ptr) # "Code" /\ Get(st.analysis, ptr + 1) # "Code"
            THEN Put(Put(st.analysis, ptr, "NotCode"), ptr + 1, "NotCode")
            ELSE st.analysis
      l1 == IF Bank_contains_addr(target_bank(input), ptr)
            THEN Labels_set(st.labels, ptr, Label_new(FALSE))
            ELSE st.labels
      got == fetch_addr(input.memory, ptr)
  IN  IF got = None THEN [st EXCEPT !.analysis = a1, !.labels = l1]
      ELSE LET dst     == Unwrap(got).addr
               bank_id == Unwrap(got).bank_id
           IN  IF FALSE
               THEN [st EXCEPT !.analysis = a1, !.labels = l1]
               ELSE [st EXCEPT
                       !.analysis = Put(a1, dst, "Code"),
                       !.labels = IF input.target_bank_id = bank_id
                                  THEN Labels_set(l1, dst, Label_new(TRUE))
                                  ELSE l1]

set_handler(st, env, ptr) ==
  LET input == env.input
      \* the vector bytes become NotCode unless one of them is Code
      a1 == IF Get(st.analysis, ptr) # "Code" /\ Get(st.analysis, ptr + 1) # "Code"
            THEN Put(Put(st.analysis, ptr, "NotCode"), ptr + 1, "NotCode")
            ELSE st.analysis
      l1 == IF Bank_contains_addr(target_bank(input), ptr)
            THEN Labels_set(st.labels, ptr, Label_new(FALSE))
            ELSE st.labels
      got == fetch_addr(input.memory, ptr)
  IN  IF got = None THEN [st EXCEPT !.analysis = a1, !.labels = l1]
      ELSE LET dst     == Unwrap(got).addr
               bank_id == Unwrap(got).bank_id
           IN  IF Get(a1, dst) = "NotCode"
               THEN [st EXCEPT !.analysis = a1, !.labels = l1]
               ELSE [st EXCEPT
                       !.analysis = Put(a1, dst, "Code"),
                       !.labels = IF input.target_bank_id = bank_id
                                  THEN Labels_set(l1, dst, Label_new(TRUE))
                                  ELSE l1]

interrupt_analyze(st, env) ==
  LET s1 == IF env.config.use_nmi THEN set_handler(st, env, NMI_VECTOR) ELSE st
      s2 == IF env.config.use_reset THEN set_handler(s1, env, RESET_VECTOR) ELSE s1
      s3 == IF env.config.use_irq THEN set_handler(s2, env, IRQ_VECTOR) ELSE s2
  IN  s3

(***************************************************************************)
(* analysis/op.rs (Pass 4)                                                 *)
(***************************************************************************)
op_is_forbidden(config, op) ==
  \/ ~Op_is_official(op)
  \/ op.opcode = OPC_BRK /\ ~config.allow_brk
  \/ op.opcode = OPC_CLV /\ ~config.allow_clv
  \/ op.opcode = OPC_SED /\ ~config.allow_sed

\* A Pass 4 without the page-wrap rule.
operand_never_wraps(op) == FALSE

operand_is_wrapping_ptr(op) ==
  LET operand == Op_operand(op)
  IN  CASE operand.kind = "Ind" -> operand.val % 256 = 255
        [] operand.kind \in {"IndX", "IndY"} -> operand.val = 255
        [] OTHER -> FALSE

\* A successor check that accepts a successor address that overflows.
op_has_valid_succ_lenient(memory, addr, op, bank_id) ==
  LET is_same_bank(addr_succ) == \E b \in find_bank_id(memory, addr_succ) : b = bank_id
      valid(succ) ==
        CASE succ.kind = "Normal" ->
               \A s \in checked_add_unsigned(addr, succ.val) : is_same_bank(s)
          [] succ.kind = "Branch" ->
               \A s \in checked_add_signed(addr, succ.val) : is_same_bank(s)
          [] OTHER -> TRUE
  IN  valid(Op_succ(op))

\* A successor check that accepts the address right behind the bank.
op_has_valid_succ_to_end(memory, addr, op, bank_id) ==
  LET is_same_bank(addr_succ) ==
        \/ \E b \in find_bank_id(memory, addr_succ) : b = bank_id
        \/ addr_succ = Bank_addr_range(memory[bank_id + 1]).max + 1
      succ == Op_succ(op)
  IN  CASE succ.kind = "Normal" ->
             \E s \in checked_add_unsigned(addr, succ.val) : is_same_bank(s)
        [] succ.kind = "Branch" ->
             \E s \in checked_add_signed(addr, succ.val) : is_same_bank(s)
        [] OTHER -> TRUE

op_has_valid_succ(memory, addr, op, bank_id) ==
  LET is_same_bank(addr_succ) == \E b \in find_bank_id(memory, addr_succ) : b = bank_id
      succ == Op_succ(op)
  IN  CASE succ.kind = "Normal" ->
             \E s \in checked_add_unsigned(addr, succ.val) : is_same_bank(s)
        [] succ.kind = "Branch" ->
             \E s \in checked_add_signed(addr, succ.val) : is_same_bank(s)
        [] OTHER -> TRUE

\* The 0x100 addresses from abs on, wrapping in 16 bits.
abs_indexed(abs) == {(abs + i) % AddressSpace : i \in 0 .. 255}

\* Read candidates that count the pointer of an indirect operand only for
\* the instructions classified as reading.
op_read_candidates_of_reads(op) ==
  LET operand == Op_operand(op)
      k == operand.kind
      v == operand.val
  IN  CASE ~Op_is_read(op) -> [panic |-> FALSE, cand |-> None]
        [] k = "Ind" ->
             [panic |-> checked_add_unsigned(v, 1) = None,
              cand  |-> Some({v} \cup checked_add_unsigned(v, 1))]
        [] k = "IndX" -> [panic |-> FALSE, cand |-> Some(ZpAll)]
        [] k = "IndY" ->
             [panic |-> zp_checked_add_unsigned(v, 1) = None,
              cand  |-> Some({v} \cup zp_checked_add_unsigned(v, 1))]
        [] k \in {"Imp", "Acc", "Imm", "Rel"} -> [panic |-> FALSE, cand |-> None]
        [] k = "Zp" /\ Op_is_read(op) -> [panic |-> FALSE, cand |-> Some({v})]
        [] k \in {"ZpX", "ZpY"} /\ Op_is_read(op) -> [panic |-> FALSE, cand |-> Some(ZpAll)]
        [] k = "Abs" /\ Op_is_read(op) -> [panic |-> FALSE, cand |-> Some({v})]
        [] k \in {"AbsX", "AbsY"} /\ Op_is_read(op) ->
             [panic |-> FALSE, cand |-> Some(abs_indexed(v))]
        [] OTHER -> [panic |-> FALSE, cand |-> None]

\* op_read_candidates: [panic, cand]; cand is the Option of the candidate
\* set, panic is the unwrap of pointer + 1 failing.
op_read_candidates(op) ==
  LET operand == Op_operand(op)
      k == operand.kind
      v == operand.val
  IN  CASE k = "Ind" ->
             [panic |-> checked_add_unsigned(v, 1) = None,
              cand  |-> Some({v} \cup checked_add_unsigned(v, 1))]
        [] k = "IndX" -> [panic |-> FALSE, cand |-> Some(ZpAll)]
        [] k = "IndY" ->
             [panic |-> zp_checked_add_unsigned(v, 1) = None,
              cand  |-> Some({v} \cup zp_checked_add_unsigned(v, 1))]
        [] k \in {"Imp", "Acc", "Imm", "Rel"} -> [panic |-> FALSE, cand |-> None]
        [] k = "Zp" /\ Op_is_read(op) -> [panic |-> FALSE, cand |-> Some({v})]
        [] k \in {"ZpX", "ZpY"} /\ Op_is_read(op) -> [panic |-> FALSE, cand |-> Some(ZpAll)]
        [] k = "Abs" /\ Op_is_read(op) -> [panic |-> FALSE, cand |-> Some({v})]
        [] k \in {"AbsX", "AbsY"} /\ Op_is_read(op) ->
             [panic |-> FALSE, cand |-> Some(abs_indexed(v))]
        [] OTHER -> [panic |-> FALSE, cand |-> None]

\* Write candidates that take the whole zero page for the indexed indirect
\* operands.
op_write_candidates_indirect(op) ==
  LET operand == Op_operand(op)
      k == operand.kind
      v == operand.val
  IN  IF ~Op_is_write(op) THEN None
      ELSE CASE k = "Ind" -> None
             [] k \in {"IndX", "IndY"} -> Some(ZpAll)
             [] k \in {"Imp", "Acc", "Imm", "Rel"} -> None
             [] k = "Zp" -> Some({v})
             [] k \in {"ZpX", "ZpY"} -> Some(ZpAll)
             [] k = "Abs" -> Some({v})
             [] k \in {"AbsX", "AbsY"} -> Some(abs_indexed(v))

\* op_write_candidates: the Option of the candidate set.
op_write_candidates(op) ==
  LET operand == Op_operand(op)
      k == operand.kind
      v == operand.val
  IN  IF ~Op_is_write(op) THEN None
      ELSE CASE k \in {"Ind", "IndX", "IndY"} -> None
             [] k \in {"Imp", "Acc", "Imm", "Rel"} -> None
             [] k = "Zp" -> Some({v})
             [] k \in {"ZpX", "ZpY"} -> Some(ZpAll)
             [] k = "Abs" -> Some({v})
             [] k \in {"AbsX", "AbsY"} -> Some(abs_indexed(v))

op_reads_unreadable_addr(perms, op) ==
  \E it \in op_read_candidates(op).cand : \A a \in it : ~is_readable(Get(perms, a))

op_writes_unwritable_addr(perms, op) ==
  \E it \in op_write_candidates(op) : \A a \in it : ~is_writable(Get(perms, a))

\* An is_invalid_op that builds the read candidates before it looks at the
\* page-wrap rule.
is_invalid_op_unguarded(env, addr, op, bank_id) ==
  IF op_read_candidates(op).panic
  THEN [panic |-> TRUE, invalid |-> FALSE]
  ELSE [panic |-> FALSE,
        invalid |-> \/ op_is_forbidden(env.config, op)
                    \/ operand_is_wrapping_ptr(op)
                    \/ ~op_has_valid_succ(env.input.memory, addr, op, bank_id)
                    \/ op_reads_unreadable_addr(env.input.permissions, op)
                    \/ op_writes_unwritable_addr(env.input.permissions, op)]

\* is_invalid_op: [panic, invalid].  The disjunction is evaluated left to
\* right and stops at the first true disjunct, so the read candidates are
\* built only when the three disjuncts before them are false.
is_invalid_op(env, addr, op, bank_id) ==
  IF \/ op_is_forbidden(env.config, op)
     \/ operand_is_wrapping_ptr(op)
     \/ ~op_has_valid_succ(env.input.memory, addr, op, bank_id)
  THEN [panic |-> FALSE, invalid |-> TRUE]
  ELSE IF op_read_candidates(op).panic
  THEN [panic |-> TRUE, invalid |-> FALSE]
  ELSE [panic |-> FALSE,
        invalid |-> \/ op_reads_unreadable_addr(env.input.permissions, op)
                    \/ op_writes_unwritable_addr(env.input.permissions, op)]

analyze_invalid_op_addr(st, env, addr) ==
  IF Get(st.analysis, addr) # "Unknown" THEN st
  ELSE LET f == fetch_op(env.input.memory, addr)
       IN  CASE f.tag = "Ok" ->
                  LET r == is_invalid_op(env, addr, f.op, f.bank_id)
                  IN  IF r.panic THEN [st EXCEPT !.panic = TRUE]
                      ELSE IF r.invalid
                      THEN [st EXCEPT !.analysis = Put(@, addr, "NotCode")]
                      ELSE st
             [] f.tag = "Nothing" -> st
             [] f.tag = "Incomplete" -> [st EXCEPT !.analysis = Put(@, addr, "NotCode")]

analyze_invalid_op(st, env) == ForEach(analyze_invalid_op_addr, st, env, AllTracked(st))

\* A set_notcode! without the test for Code.
set_notcode_force(analysis, a) == Put(analysis, a, "NotCode")

\* set_notcode!: NotCode unless Code.
set_notcode(analysis, a) ==
  IF Get(analysis, a) # "Code" THEN Put(analysis, a, "NotCode") ELSE analysis

\* The operand bytes addr + 1 .. addr + n - 1 set by set_notcode!, in order;
\* panic when addr + i leaves the address space (unwrap of None).
RECURSIVE set_notcode_operands(_, _, _, _)
set_notcode_operands(st, addr, i, n) ==
  IF i >= n THEN st
  ELSE IF checked_add_unsigned(addr, i) = None THEN [st EXCEPT !.panic = TRUE]
  ELSE set_notcode_operands([st EXCEPT !.analysis = set_notcode(@, addr + i)],
                            addr, i + 1, n)

\* A Pass 4 that leaves the operand bytes alone.
analyze_operand_addr_skip(st, env, addr) == st

analyze_operand_addr(st, env, addr) ==
  IF Get(st.analysis, addr) # "Code" THEN st
  ELSE LET f == fetch_op(env.input.memory, addr)
       IN  CASE f.tag = "Ok" -> set_notcode_operands(st, addr, 1, Op_len(f.op))
             [] f.tag = "Nothing" -> st
             [] f.tag = "Incomplete" -> set_notcode_operands(st, addr, 1, Len(f.buf))

analyze_operand(st, env) == ForEach(analyze_operand_addr, st, env, AllTracked(st))

op_analyze(st, env) == analyze_operand(analyze_invalid_op(st, env), env)

(***************************************************************************)
(* analysis/flow.rs (Pass 5)                                               *)
(***************************************************************************)
VERTEX_C == 65536

Somewhere == [kind |-> "Somewhere"]

SuccAddr(dst) == [kind |-> "Addr", addr |-> dst]

\* A determine for which a destination in another bank is never concrete.
determine_same_bank(memory, bank_id, dst) ==
  LET ok == \A dst_bank_id \in find_bank_id(memory, dst) : bank_id = dst_bank_id
  IN  IF ok THEN SuccAddr(dst) ELSE Somewhere

\* The closure `determine` of get_succ_addrs: dst is concrete when it lies in
\* no bank, in the bank of the instruction, or in a bank that is not fixed.
determine(memory, bank_id, dst) ==
  LET ok == \A dst_bank_id \in find_bank_id(memory, dst) :
              bank_id = dst_bank_id \/ ~memory[dst_bank_id + 1].fixed
  IN  IF ok THEN SuccAddr(dst) ELSE Somewhere

\* get_succ_addrs: the Option of the sequence of successors (at most two,
\* without repetition).
get_succ_addrs(input, addr) ==
  LET succs(memory, bank_id, r) ==
        LET det(dst) == determine(memory, bank_id, dst)
            opt(dst) == IF dst = None THEN Somewhere ELSE det(Unwrap(dst))
        IN  Some(CASE r.kind = "Normal" -> << det(r.dst) >>
                   [] r.kind = "Brk" -> << opt(r.dst) >>
                   [] r.kind = "Kil" -> << Somewhere >>
                   [] r.kind = "Branch" ->
                        IF det(r.taken) # det(r.not_taken)
                        THEN << det(r.taken), det(r.not_taken) >>
                        ELSE << det(r.taken) >>
                   [] r.kind = "Jsr" -> << det(r.dst) >>
                   [] r.kind = "Rti" -> << Somewhere >>
                   [] r.kind = "Rts" -> << Somewhere >>
                   [] r.kind = "JmpAbs" -> << det(r.dst) >>
                   [] r.kind = "JmpInd" -> << opt(r.dst) >>)
      fetched(memory, f) ==
        IF f.tag # "Ok" THEN None
        ELSE succs(memory, f.bank_id, resolve_op_succ(memory, addr, Op_succ(f.op)))
  IN  fetched(input.memory, fetch_op(input.memory, addr))

\* add_edge!(src, dst) on g = [graph_t, in_degs].
add_edge(g, src, dst) ==
  [graph_t |-> [g.graph_t EXCEPT ![dst] = Append(@, src)],
   in_degs |-> [g.in_degs EXCEPT ![src] = @ + 1]]

RECURSIVE add_succ_edges(_, _, _)
add_succ_edges(g, src, succ_addrs) ==
  IF succ_addrs = << >> THEN g
  ELSE LET s == Head(succ_addrs)
           d == IF s.kind = "Somewhere" THEN VERTEX_C ELSE s.addr
       IN  add_succ_edges(add_edge(g, src, d), src, Tail(succ_addrs))

\* The loop body of make_transpose_graph; here st = [analysis, g].
make_transpose_graph_addr(st, env, src) ==
  LET edges(kind, succ) ==
        CASE kind = "Unknown" ->
               IF succ # None
               THEN [st EXCEPT !.g = add_succ_edges(@, src, Unwrap(succ))]
               ELSE [st EXCEPT !.g = add_edge(@, src, src)]
          [] kind = "Code" -> [st EXCEPT !.g = add_edge(@, src, src)]
          [] kind = "NotCode" -> st
  IN  edges(Get(st.analysis, src), get_succ_addrs(env.input, src))

\* make_transpose_graph over the tracked addresses and the vertex C.  An
\* untracked address is in no bank and no successor of any instruction:
\* it has a self-loop or no edge at all and never meets a tracked vertex.
make_transpose_graph(analysis, env) ==
  LET V  == DOMAIN analysis.at \cup {VERTEX_C}
      g0 == [graph_t |-> [v \in V |-> << >>], in_degs |-> [v \in V |-> 0]]
      s1 == ForEach(make_transpose_graph_addr, [analysis |-> analysis, g |-> g0],
                    env, Ascending(DOMAIN analysis.at))
  IN  add_edge(s1.g, VERTEX_C, VERTEX_C)

\* A relaxation that makes a vertex NotCode as soon as one of its successors
\* is popped, whatever its other successors are.
RECURSIVE notcode_relax_eager(_, _)
notcode_relax_eager(k, dsts) ==
  IF dsts = << >> THEN k
  ELSE LET dst == Head(dsts)
       IN  IF k.in_degs[dst] = 0 THEN notcode_relax_eager(k, Tail(dsts))
           ELSE IF dst = VERTEX_C THEN [k EXCEPT !.panic = TRUE]
           ELSE notcode_relax_eager(
                  [k EXCEPT !.in_degs = [@ EXCEPT ![dst] = 0],
                            !.analysis = Put(@, dst, "NotCode"),
                            !.stack = Append(@, dst)],
                  Tail(dsts))

\* The inner loop `for &dst in &graph_t[addr]` of analyze_notcode on
\* k = [analysis, in_degs, stack, panic].
RECURSIVE notcode_relax(_, _)
notcode_relax(k, dsts) ==
  IF dsts = << >> THEN k
  ELSE LET dst == Head(dsts)
       IN  IF k.in_degs[dst] = 0 THEN [k EXCEPT !.panic = TRUE]
           ELSE LET d1 == [k.in_degs EXCEPT ![dst] = @ - 1]
                IN  IF d1[dst] = 0
                    THEN IF dst = VERTEX_C THEN [k EXCEPT !.panic = TRUE]
                         ELSE notcode_relax(
                                [k EXCEPT !.in_degs = d1,
                                          !.analysis = Put(@, dst, "NotCode"),
                                          !.stack = Append(@, dst)],
                                Tail(dsts))
                    ELSE notcode_relax([k EXCEPT !.in_degs = d1], Tail(dsts))

\* The loop `while let Some(addr) = stack.pop()` of analyze_notcode.
RECURSIVE notcode_loop(_, _)
notcode_loop(k, graph_t) ==
  IF k.panic \/ k.stack = << >> THEN k
  ELSE LET addr == k.stack[Len(k.stack)]
           k1   == [k EXCEPT !.stack = SubSeq(@, 1, Len(@) - 1)]
       IN  IF Get(k.analysis, addr) # "NotCode" THEN [k EXCEPT !.panic = TRUE]
           ELSE notcode_loop(notcode_relax(k1, graph_t[addr]), graph_t)

analyze_notcode(st, env) ==
  LET finish(k) == [st EXCEPT !.analysis = k.analysis, !.panic = st.panic \/ k.panic]
      run(g) ==
        finish(notcode_loop(
                 [analysis |-> st.analysis, in_degs |-> g.in_degs, panic |-> FALSE,
                  stack |-> SelectSeq(AllTracked(st), LAMBDA a : g.in_degs[a] = 0)],
                 g.graph_t))
  IN  run(make_transpose_graph(st.analysis, env))

\* A successor choice that follows the last live successor even when there
\* are two.
get_unique_succ_addr_fallthrough(analysis, input, addr) ==
  LET pick(addrs) ==
        [panic |-> FALSE,
         dst |-> IF Len(addrs) >= 1 THEN Some(addrs[Len(addrs)].addr) ELSE None]
      unique(succ) ==
        IF Get(analysis, addr) # "Code" THEN [panic |-> TRUE, dst |-> None]
        ELSE IF succ = None THEN [panic |-> FALSE, dst |-> None]
        ELSE IF \E i \in 1 .. Len(Unwrap(succ)) : Unwrap(succ)[i].kind = "Somewhere"
        THEN [panic |-> FALSE, dst |-> None]
        ELSE pick(SelectSeq(Unwrap(succ),
                            LAMBDA s : Get(analysis, s.addr) # "NotCode"))
  IN  unique(get_succ_addrs(input, addr))

\* get_unique_succ_addr: [panic, dst]; panic is the failed assertion that
\* addr is Code.
get_unique_succ_addr(analysis, input, addr) ==
  LET pick(addrs) ==
        [panic |-> FALSE,
         dst |-> IF Len(addrs) = 1 THEN Some(addrs[1].addr) ELSE None]
      unique(succ) ==
        IF Get(analysis, addr) # "Code" THEN [panic |-> TRUE, dst |-> None]
        ELSE IF succ = None THEN [panic |-> FALSE, dst |-> None]
        ELSE IF \E i \in 1 .. Len(Unwrap(succ)) : Unwrap(succ)[i].kind = "Somewhere"
        THEN [panic |-> FALSE, dst |-> None]
        ELSE pick(SelectSeq(Unwrap(succ),
                            LAMBDA s : Get(analysis, s.addr) # "NotCode"))
  IN  unique(get_succ_addrs(input, addr))

\* The loop `while let Some(dst) = get_unique_succ_addr(..)` of analyze_code
\* on st = [analysis, labels, panic, visited].
RECURSIVE analyze_code_walk(_, _, _)
analyze_code_walk(st, env, src) ==
  LET advance(dst) ==
        IF dst \in st.visited THEN st
        ELSE analyze_code_walk(
               [st EXCEPT !.visited = @ \cup {dst},
                          !.analysis = Put(@, dst, "Code")],
               env, dst)
      step(u) ==
        IF u.panic THEN [st EXCEPT !.panic = TRUE]
        ELSE IF u.dst = None THEN st
        ELSE advance(Unwrap(u.dst))
  IN  step(get_unique_succ_addr(st.analysis, env.input, src))

analyze_code_addr(st, env, addr) ==
  IF addr \in st.visited THEN st
  ELSE LET s1 == [st EXCEPT !.visited = @ \cup {addr}]
       IN  IF Get(s1.analysis, addr) # "Code" THEN s1
           ELSE analyze_code_walk(s1, env, addr)

analyze_code(st, env) ==
  LET finish(s1) == [st EXCEPT !.analysis = s1.analysis, !.panic = s1.panic]
  IN  finish(ForEach(analyze_code_addr,
                     [analysis |-> st.analysis, labels |-> st.labels,
                      panic |-> st.panic, visited |-> {}],
                     env, AllTracked(st)))

(***************************************************************************)
(* analysis/linear_sweep.rs (Pass 6)                                       *)
(***************************************************************************)
\* A get_stmt that emits the instruction at an Unknown address and leaves
\* the address Unknown.
get_stmt_unmarked(analysis, input, addr) ==
  LET bad == [analysis |-> analysis, panic |-> TRUE,
              stmt |-> [kind |-> "Byte", byte |-> 0]]
      byte_stmt(got) ==
        IF got = None THEN bad
        ELSE [analysis |-> analysis, panic |-> FALSE,
              stmt |-> [kind |-> "Byte", byte |-> Unwrap(got).byte]]
      stmt_of(f, kind) ==
        CASE kind = "Unknown" ->
               ( CASE f.tag = "Ok" ->
                        [analysis |-> analysis, panic |-> FALSE,
                         stmt |-> [kind |-> "Op", op |-> f.op]]
                   [] f.tag = "Incomplete" ->
                        [analysis |-> Put(analysis, addr, "NotCode"), panic |-> FALSE,
                         stmt |-> [kind |-> "Byte", byte |-> f.buf[1]]]
                   [] f.tag = "Nothing" -> bad )
          [] kind = "Code" ->
               ( CASE f.tag = "Ok" ->
                        [analysis |-> analysis, panic |-> FALSE,
                         stmt |-> [kind |-> "Op", op |-> f.op]]
                   [] f.tag = "Incomplete" ->
                        [analysis |-> analysis, panic |-> FALSE,
                         stmt |-> [kind |-> "IncompleteOp", buf |-> f.buf]]
                   [] f.tag = "Nothing" -> bad )
          [] kind = "NotCode" -> byte_stmt(get_byte(input.memory, addr))
  IN  stmt_of(fetch_op(input.memory, addr), Get(analysis, addr))

\* A get_stmt that takes a cut instruction at an Unknown address for code.
get_stmt_whole(analysis, input, addr) ==
  LET bad == [analysis |-> analysis, panic |-> TRUE,
              stmt |-> [kind |-> "Byte", byte |-> 0]]
      byte_stmt(got) ==
        IF got = None THEN bad
        ELSE [analysis |-> analysis, panic |-> FALSE,
              stmt |-> [kind |-> "Byte", byte |-> Unwrap(got).byte]]
      stmt_of(f, kind) ==
        CASE kind = "Unknown" ->
               ( CASE f.tag = "Ok" ->
                        [analysis |-> Put(analysis, addr, "Code"), panic |-> FALSE,
                         stmt |-> [kind |-> "Op", op |-> f.op]]
                   [] f.tag = "Incomplete" ->
                        [analysis |-> Put(analysis, addr, "Code"), panic |-> FALSE,
                         stmt |-> [kind |-> "IncompleteOp", buf |-> f.buf]]
                   [] f.tag = "Nothing" -> bad )
          [] kind = "Code" ->
               ( CASE f.tag = "Ok" ->
                        [analysis |-> analysis, panic |-> FALSE,
                         stmt |-> [kind |-> "Op", op |-> f.op]]
                   [] f.tag = "Incomplete" ->
                        [analysis |-> analysis, panic |-> FALSE,
                         stmt |-> [kind |-> "IncompleteOp", buf |-> f.buf]]
                   [] f.tag = "Nothing" -> bad )
          [] kind = "NotCode" -> byte_stmt(get_byte(input.memory, addr))
  IN  stmt_of(fetch_op(input.memory, addr), Get(analysis, addr))

\* get_stmt: [analysis, stmt, panic]
get_stmt(analysis, input, addr) ==
  LET bad == [analysis |-> analysis, panic |-> TRUE,
              stmt |-> [kind |-> "Byte", byte |-> 0]]
      byte_stmt(got) ==
        IF got = None THEN bad
        ELSE [analysis |-> analysis, panic |-> FALSE,
              stmt |-> [kind |-> "Byte", byte |-> Unwrap(got).byte]]
      stmt_of(f, kind) ==
        CASE kind = "Unknown" ->
               ( CASE f.tag = "Ok" ->
                        [analysis |-> Put(analysis, addr, "Code"), panic |-> FALSE,
                         stmt |-> [kind |-> "Op", op |-> f.op]]
                   [] f.tag = "Incomplete" ->
                        [analysis |-> Put(analysis, addr, "NotCode"), panic |-> FALSE,
                         stmt |-> [kind |-> "Byte", byte |-> f.buf[1]]]
                   [] f.tag = "Nothing" -> bad )
          [] kind = "Code" ->
               ( CASE f.tag = "Ok" ->
                        [analysis |-> analysis, panic |-> FALSE,
                         stmt |-> [kind |-> "Op", op |-> f.op]]
                   [] f.tag = "Incomplete" ->
                        [analysis |-> analysis, panic |-> FALSE,
                         stmt |-> [kind |-> "IncompleteOp", buf |-> f.buf]]
                   [] f.tag = "Nothing" -> bad )
          [] kind = "NotCode" -> byte_stmt(get_byte(input.memory, addr))
  IN  stmt_of(fetch_op(input.memory, addr), Get(analysis, addr))

IsCodeStmt(stmt) == stmt.kind \in {"Op", "IncompleteOp"}

\* A sweep that labels every statement.
needs_label_always(stmt_pre, stmt) == TRUE

\* A needs_label without the rule of the instruction that ends the code.
needs_label_boundary(stmt_pre, stmt) ==
  \/ IsCodeStmt(stmt_pre) /\ stmt.kind = "Byte"
  \/ stmt_pre.kind = "Byte" /\ IsCodeStmt(stmt)

needs_label(stmt_pre, stmt) ==
  \/ IsCodeStmt(stmt_pre) /\ stmt.kind = "Byte"
  \/ stmt_pre.kind = "Byte" /\ IsCodeStmt(stmt)
  \/ /\ stmt_pre.kind = "Op"
     /\ stmt_pre.op.opcode \in {OPC_RTI, OPC_RTS, OPC_JMP_ABS, OPC_JMP_IND}

\* A sweep loop that stops one address early: it ends when the next address
\* is the last address of the bank.
RECURSIVE linear_sweep_loop_short(_, _, _)
linear_sweep_loop_short(st, env, addr) ==
  LET bank == target_bank(env.input)
      next(s1, nxt) ==
        IF nxt = None THEN s1
        ELSE IF ~Bank_contains_addr(bank, Unwrap(nxt) + 1) THEN s1
        ELSE linear_sweep_loop_short(s1, env, Unwrap(nxt))
      push(r) ==
        IF r.panic THEN [st EXCEPT !.panic = TRUE]
        ELSE next([st EXCEPT
                     !.analysis = r.analysis,
                     !.labels = IF \/ st.stmts = << >>
                                   \/ needs_label(st.stmts[Len(st.stmts)], r.stmt)
                                THEN Labels_set(st.labels, addr, Label_new(FALSE))
                                ELSE st.labels,
                     !.stmts = Append(@, r.stmt)],
                  checked_add_unsigned(addr, Statement_len(r.stmt)))
  IN  push(get_stmt(st.analysis, env.input, addr))

\* The loop of linear_sweep::analyze on st = [analysis, labels, panic, stmts].
RECURSIVE linear_sweep_loop(_, _, _)
linear_sweep_loop(st, env, addr) ==
  LET bank == target_bank(env.input)
      next(s1, nxt) ==
        IF nxt = None THEN s1
        ELSE IF ~Bank_contains_addr(bank, Unwrap(nxt)) THEN s1
        ELSE linear_sweep_loop(s1, env, Unwrap(nxt))
      push(r) ==
        IF r.panic THEN [st EXCEPT !.panic = TRUE]
        ELSE next([st EXCEPT
                     !.analysis = r.analysis,
                     !.labels = IF \/ st.stmts = << >>
                                   \/ needs_label(st.stmts[Len(st.stmts)], r.stmt)
                                THEN Labels_set(st.labels, addr, Label_new(FALSE))
                                ELSE st.labels,
                     !.stmts = Append(@, r.stmt)],
                  checked_add_unsigned(addr, Statement_len(r.stmt)))
  IN  push(get_stmt(st.analysis, env.input, addr))

linear_sweep_analyze(st, env) ==
  linear_sweep_loop([analysis |-> st.analysis, labels |-> st.labels,
                     panic |-> st.panic, stmts |-> << >>],
                    env, target_bank(env.input).addr)

(***************************************************************************)
(* analysis/label.rs (Pass 7)                                              *)
(***************************************************************************)
\* A set_label that asks of every destination what it asks of those
\* referenced from the target bank.
set_label_anywhere(labels, input, from_target, dst, entrypoint) ==
  IF find_bank_id(input.memory, dst) # None
  THEN Labels_set(labels, dst, Label_new(entrypoint)) ELSE labels

set_label(labels, input, from_target, dst, entrypoint) ==
  LET dst_bank_id == find_bank_id(input.memory, dst)
      cond == IF from_target THEN dst_bank_id # None
              ELSE \E b \in dst_bank_id : b = input.target_bank_id
  IN  IF cond THEN Labels_set(labels, dst, Label_new(entrypoint)) ELSE labels

\* A label pass for which the destination of JSR is an ordinary label.
set_needed_labels_plain(labels, input, addr, op, from_target) ==
  LET memory  == input.memory
      operand == Op_operand(op)
      k == operand.kind
      v == operand.val
  IN  CASE op.opcode = OPC_JSR -> set_label(labels, input, from_target, v, FALSE)
        [] op.opcode = OPC_JMP_IND ->
             IF fetch_addr(memory, v) # None
             THEN set_label(labels, input, from_target,
                            Unwrap(fetch_addr(memory, v)).addr, TRUE)
             ELSE labels
        [] OTHER ->
             CASE k \in {"Zp", "ZpX", "ZpY", "Abs", "AbsX", "AbsY", "IndX"} ->
                    set_label(labels, input, from_target, v, FALSE)
               [] k = "IndY" ->
                    LET l1 == set_label(labels, input, from_target, v, FALSE)
                    IN  IF fetch_addr(memory, v) # None
                        THEN set_label(l1, input, from_target,
                                       Unwrap(fetch_addr(memory, v)).addr, FALSE)
                        ELSE l1
               [] k = "Rel" ->
                    set_label(labels, input, from_target,
                              wrapping_add_signed(wrapping_add_unsigned(addr, 2), v),
                              FALSE)
               [] OTHER -> labels

\* A label pass for which the destination of JMP abs is an entrypoint too.
set_needed_labels_jumps(labels, input, addr, op, from_target) ==
  LET memory  == input.memory
      operand == Op_operand(op)
      k == operand.kind
      v == operand.val
  IN  CASE op.opcode \in {OPC_JSR, OPC_JMP_ABS} -> set_label(labels, input, from_target, v, TRUE)
        [] op.opcode = OPC_JMP_IND ->
             IF fetch_addr(memory, v) # None
             THEN set_label(labels, input, from_target,
                            Unwrap(fetch_addr(memory, v)).addr, TRUE)
             ELSE labels
        [] OTHER ->
             CASE k \in {"Zp", "ZpX", "ZpY", "Abs", "AbsX", "AbsY", "IndX"} ->
                    set_label(labels, input, from_target, v, FALSE)
               [] k = "IndY" ->
                    LET l1 == set_label(labels, input, from_target, v, FALSE)
                    IN  IF fetch_addr(memory, v) # None
                        THEN set_label(l1, input, from_target,
                                       Unwrap(fetch_addr(memory, v)).addr, FALSE)
                        ELSE l1
               [] k = "Rel" ->
                    set_label(labels, input, from_target,
                              wrapping_add_signed(wrapping_add_unsigned(addr, 2), v),
                              FALSE)
               [] OTHER -> labels

set_needed_labels(labels, input, addr, op, from_target) ==
  LET memory  == input.memory
      operand == Op_operand(op)
      k == operand.kind
      v == operand.val
  IN  CASE op.opcode = OPC_JSR -> set_label(labels, input, from_target, v, TRUE)
        [] op.opcode = OPC_JMP_IND ->
             IF fetch_addr(memory, v) # None
             THEN set_label(labels, input, from_target,
                            Unwrap(fetch_addr(memory, v)).addr, TRUE)
             ELSE labels
        [] OTHER ->
             CASE k \in {"Zp", "ZpX", "ZpY", "Abs", "AbsX", "AbsY", "IndX"} ->
                    set_label(labels, input, from_target, v, FALSE)
               [] k = "IndY" ->
                    LET l1 == set_label(labels, input, from_target, v, FALSE)
                    IN  IF fetch_addr(memory, v) # None
                        THEN set_label(l1, input, from_target,
                                       Unwrap(fetch_addr(memory, v)).addr, FALSE)
                        ELSE l1
               [] k = "Rel" ->
                    set_label(labels, input, from_target,
                              wrapping_add_signed(wrapping_add_unsigned(addr, 2), v),
                              FALSE)
               [] OTHER -> labels

label_analyze_addr(st, env, addr) ==
  IF Get(st.analysis, addr) # "Code" THEN st
  ELSE LET f == fetch_op(env.input.memory, addr)
       IN  IF f.tag = "Ok"
           THEN [st EXCEPT !.labels =
                   set_needed_labels(@, env.input, addr, f.op,
                                     f.bank_id = env.input.target_bank_id)]
           ELSE st

label_analyze(st, env) ==
  LET bank  == target_bank(env.input)
      r     == Bank_addr_range(bank)
      addrs == IF bank.fixed THEN AllTracked(st)
               ELSE Ascending(r.min .. r.max)
  IN  ForEach(label_analyze_addr, st, env, addrs)

(***************************************************************************)
(* The inputs the model draws from.                                        *)
(***************************************************************************)
\* The largest number of instruction-shaped chunks in a generated bank body.
MaxChunks == 2

\* 0x8000, where the first bank is loaded.
TARGET_ADDR == 128 * 256

\* The zero page cells that STA $10 names.
ZpCells == {16}

\* Instruction-shaped byte groups:  LDA #$EA (its operand byte decodes as
\* NOP), RTS, BPL -2, JMP $8000, JMP ($80FF) and LDA ($FF),Y.
Chunks ==
  { << 169, 234 >>, << 96 >>, << 16, 254 >>, << 76, 0, 128 >>,
    << 108, 255, 128 >>, << 177, 255 >> }

RECURSIVE ChunkBodies(_)
ChunkBodies(n) ==
  IF n = 0 THEN { << >> }
  ELSE LET shorter == ChunkBodies(n - 1)
       IN  shorter \cup {b \o c : b \in shorter, c \in Chunks}

\* Further bodies:  LDA #1; RTS -- JSR $8004; RTS; NOP; RTS -- BPL +0; BPL -4
\* -- JMP ($8003); $8000 -- ISC abs,X (unofficial, truncated) -- STA $10; RTS
\* -- BRK; RTS -- CLV; RTS -- SED; RTS -- LDA $8000,X; RTS
ScenarioBodies ==
  { << 169, 1, 96 >>, << 32, 4, 128, 96, 234, 96 >>, << 16, 0, 16, 252 >>,
    << 108, 3, 128, 0, 128 >>, << 255 >>, << 133, 16, 96 >>, << 0, 96 >>,
    << 184, 96 >>, << 248, 96 >>, << 189, 0, 128, 96 >> }

Bodies == (ChunkBodies(MaxChunks) \ { << >> }) \cup ScenarioBodies

\* Bodies of a bank at 0xFFFA..0xFFFF: the NMI, RESET and IRQ vectors.
\*   1: NMI -> $8000, RESET -> $8001, IRQ -> $FFFA (a vector byte)
\*   2: NMI -> $8002, RESET -> $FFFC (itself), IRQ -> $0010 (in no bank)
\*   3: NMI -> $FFFC (the RESET vector), RESET -> $8000, IRQ -> $8000
VectorBodies ==
  { << 0, 128, 1, 128, 250, 255 >>, << 2, 128, 252, 255, 16, 0 >>,
    << 252, 255, 0, 128, 0, 128 >> }

SmallBodies == (ChunkBodies(1) \ { << >> }) \cup ScenarioBodies

Bank(addr, body, fixed) == [addr |-> addr, body |-> body, fixed |-> fixed]

\* One bank at 0x8000, the target.
SingleBankMemories ==
  {[memory |-> << Bank(TARGET_ADDR, b, f) >>, target_bank_id |-> 0] :
     b \in Bodies, f \in {FALSE}}

\* A bank at 0x8000 and a bank holding the vectors; either is the target.
VectorMemories ==
  {[memory |-> << Bank(TARGET_ADDR, b, f[1]), Bank(NMI_VECTOR, v, f[2]) >>,
    target_bank_id |-> t] :
     b \in SmallBodies, v \in VectorBodies,
     f \in {<< FALSE, TRUE >>, << TRUE, TRUE >>, << TRUE, FALSE >>}, t \in {0, 1}}

\* One bank in the zero page: BPL -128 at address 0, at 125 (behind a NOP)
\* and at 126, and BNE -128; RTS at 0.
LowMemories ==
  {[memory |-> << Bank(a, b, FALSE) >>, target_bank_id |-> 0] :
     a \in {0, 124}, b \in {<< 16, 128 >>, << 234, 16, 128 >>, << 208, 128, 96 >>,
                              << 234, 234, 16, 128 >>}}

BankAddrs(memory) ==
  UNION {Bank_addr_range(memory[i]).min .. Bank_addr_range(memory[i]).max :
           i \in 1 .. Len(memory)}

RX == {"R", "X"}

RWX == {"R", "W", "X"}

\* Permission maps: the banks readable and executable and nothing else
\* permitted; the same with the first byte of bank 0 not executable; the
\* same with the zero page cell readable and writable; the banks readable
\* and executable and every other address fully permitted.
PermissionsOf(memory) ==
  LET banks == [a \in BankAddrs(memory) |-> RX]
      start == memory[1].addr
  IN  { [at |-> banks, rest |-> {}],
        [at |-> [banks EXCEPT ![start] = {"R"}], rest |-> {}],
        [at |-> [a \in BankAddrs(memory) \cup ZpCells |->
                   IF a \in ZpCells THEN {"R", "W"} ELSE RX],
         rest |-> {}],
        [at |-> banks, rest |-> RWX] }

\* CDL maps: all zero, one annotated address, or two.
CdlMarks ==
  { << TARGET_ADDR, 1 >>, << TARGET_ADDR, 2 >>, << TARGET_ADDR, 3 >>,
    << TARGET_ADDR, 144 >>, << TARGET_ADDR + 1, 1 >>, << TARGET_ADDR + 1, 130 >>,
    << TARGET_ADDR + 1, 96 >>, << NMI_VECTOR, 1 >>, << 16, 1 >> }

CdlPairs ==
  { << << TARGET_ADDR, 3 >>, << TARGET_ADDR + 1, 2 >> >>,
    << << TARGET_ADDR, 32 >>, << TARGET_ADDR + 1, 32 >> >> }

CdlOf(f) == [at |-> f, rest |-> 0]

Cdls ==
  {CdlOf(<< >>)} \cup
  {CdlOf([a \in {m[1]} |-> m[2]]) : m \in CdlMarks} \cup
  {CdlOf([a \in {m[1][1], m[2][1]} |-> IF a = m[1][1] THEN m[1][2] ELSE m[2][2]]) :
     m \in CdlPairs}

\* The CDL maps tried on the memories that map the interrupt vectors.
VectorCdls ==
  { CdlOf(<< >>), CdlOf([a \in {TARGET_ADDR} |-> 1]), CdlOf([a \in {TARGET_ADDR} |-> 2]),
    CdlOf([a \in {TARGET_ADDR + 1} |-> 130]), CdlOf([a \in {NMI_VECTOR} |-> 1]),
    CdlOf([a \in {TARGET_ADDR, TARGET_ADDR + 1} |-> IF a = TARGET_ADDR THEN 3 ELSE 2]) }

\* The CDL maps tried on the memories in the zero page.
LowCdls == {CdlOf(<< >>), CdlOf([a \in {0} |-> 1])}

AllowAllConfig ==
  [use_nmi |-> FALSE, use_reset |-> FALSE, use_irq |-> FALSE,
   allow_brk |-> TRUE, allow_clv |-> TRUE, allow_sed |-> TRUE]

Configs ==
  { AnalysisConfig_default,
    [AnalysisConfig_default EXCEPT !.allow_brk = TRUE, !.use_reset = FALSE],
    AllowAllConfig }

\* The configurations tried on the memories that map no interrupt vector.
UnmappedVectorConfigs == {AnalysisConfig_default, AllowAllConfig}

(***************************************************************************)
(* The tracked cells of an input (see the representation note above).      *)
(***************************************************************************)
VectorBytes == NMI_VECTOR .. ADDR_MAX

HandlerDsts(memory) ==
  {x.addr : x \in UNION {fetch_addr(memory, v) :
                           v \in {NMI_VECTOR, RESET_VECTOR, IRQ_VECTOR}}}

SuccTargets(memory) ==
  LET dsts(r) ==
        CASE r.kind \in {"Normal", "Jsr", "JmpAbs"} -> {r.dst}
          [] r.kind \in {"Brk", "JmpInd"} -> r.dst
          [] r.kind = "Branch" -> {r.taken, r.not_taken}
          [] OTHER -> {}
      of(a, f) ==
        IF f.tag # "Ok" THEN {} ELSE dsts(resolve_op_succ(memory, a, Op_succ(f.op)))
  IN  UNION {of(a, fetch_op(memory, a)) : a \in BankAddrs(memory)}

Tracked(memory, permissions, cdl) ==
  BankAddrs(memory) \cup VectorBytes \cup DOMAIN permissions.at
    \cup DOMAIN cdl.at \cup HandlerDsts(memory) \cup SuccTargets(memory)

\* The array with every tracked cell made explicit.
Expand(arr, tracked) == [at |-> [a \in tracked |-> Get(arr, a)], rest |-> arr.rest]

MakeInput(m, p, c) ==
  LET expand(tracked) ==
        [memory |-> m.memory, target_bank_id |-> m.target_bank_id,
         target_bank_name |-> "target",
         permissions |-> Expand(p, tracked), cdl |-> Expand(c, tracked)]
  IN  expand(Tracked(m.memory, p, c))

(***************************************************************************)
(* The state: the arguments of analyze (analysis/mod.rs), its locals, its  *)
(* result and the pass it is about to run.  trail keeps, for each pass     *)
(* that has ended, the analysis and the labels it ended with.  call and    *)
(* ret are a call of one library function made outside analyze (its name   *)
(* and arguments) and the Option of what it returned.  work is the state   *)
(* of the work-stack loop of analyze_notcode when that loop is run one pop *)
(* at a time.                                                              *)
(***************************************************************************)
VARIABLES input, config, analysis, labels, stmts, asm, pc, trail, call, ret, work

vars == << input, config, analysis, labels, stmts, asm, pc, trail, call, ret, work >>

NoCall == [fn |-> "none"]

NoWork == [phase |-> "none"]

env == [input |-> input, config |-> config]

st == [analysis |-> analysis, labels |-> labels, panic |-> FALSE]

\* Analysis::default() and Labels::default().
Analysis_default == [at |-> [a \in DOMAIN input.cdl.at |-> "Unknown"], rest |-> "Unknown"]

Labels_default == [at |-> [a \in DOMAIN input.cdl.at |-> None], rest |-> None]

Init ==
  /\ \/ /\ \E m \in SingleBankMemories :
            \E p \in PermissionsOf(m.memory) :
              \E c \in Cdls : input = MakeInput(m, p, c)
        /\ config \in UnmappedVectorConfigs
     \/ /\ \E m \in VectorMemories :
            \E p \in PermissionsOf(m.memory) :
              \E c \in VectorCdls : input = MakeInput(m, p, c)
        /\ config \in Configs
     \/ /\ \E m \in LowMemories :
            \E p \in PermissionsOf(m.memory) :
              \E c \in LowCdls : input = MakeInput(m, p, c)
        /\ config \in UnmappedVectorConfigs
  /\ analysis = Analysis_default
  /\ labels = Labels_default
  /\ stmts = << >>
  /\ asm = None
  /\ pc = "cdl"
  /\ trail = << >>
  /\ call = NoCall
  /\ ret = None
  /\ work = NoWork

\* One pass: r is the state the pass function returns.
Step(r, next) ==
  /\ analysis' = r.analysis
  /\ labels' = r.labels
  /\ pc' = IF r.panic THEN "panicked" ELSE next
  /\ trail' = Append(trail, [analysis |-> r.analysis, labels |-> r.labels,
                             panic |-> r.panic])
  /\ UNCHANGED << call, ret, work >>

PassCdl ==
  /\ pc = "cdl"
  /\ Step(cdl_analyze(st, env), "permission")
  /\ UNCHANGED << input, config, stmts, asm >>

PassPermission ==
  /\ pc = "permission"
  /\ Step(permission_analyze(st, env), "interrupt")
  /\ UNCHANGED << input, config, stmts, asm >>

PassInterrupt ==
  /\ pc = "interrupt"
  /\ Step(interrupt_analyze(st, env), "op")
  /\ UNCHANGED << input, config, stmts, asm >>

PassOp ==
  /\ pc = "op"
  /\ Step(op_analyze(st, env), "flow_notcode")
  /\ UNCHANGED << input, config, stmts, asm >>

PassFlowNotcode ==
  /\ pc = "flow_notcode"
  /\ Step(analyze_notcode(st, env), "flow_code")
  /\ UNCHANGED << input, config, stmts, asm >>

PassFlowCode ==
  /\ pc = "flow_code"
  /\ Step(analyze_code(st, env), "linear_sweep")
  /\ UNCHANGED << input, config, stmts, asm >>

PassLinearSweep ==
  /\ pc = "linear_sweep"
  /\ LET finish(r) == Step(r, "label") /\ stmts' = r.stmts
     IN  finish(linear_sweep_analyze(st, env))
  /\ UNCHANGED << input, config, asm >>

PassLabel ==
  /\ pc = "label"
  /\ Step(label_analyze(st, env), "build")
  /\ UNCHANGED << input, config, stmts, asm >>

\* AssemblyBuilder::new().bank_addr_range(..).bank_name(..).statements(..)
\* .labels(..).build()
BuildResult ==
  AssemblyBuilder_build([bank_addr_range |-> Some(Bank_addr_range(target_bank(input))),
                         bank_name |-> Some(input.target_bank_name),
                         statements |-> Some(stmts),
                         labels |-> Some(labels)])

\* .expect(..): a panic when build() returns an error.
Build ==
  /\ pc = "build"
  /\ asm' = IF BuildResult.tag = "Ok" THEN Some(BuildResult) ELSE None
  /\ pc' = IF BuildResult.tag = "Ok" THEN "done" ELSE "panicked"
  /\ UNCHANGED << input, config, analysis, labels, stmts, trail, call, ret, work >>

Next ==
  \/ PassCdl
  \/ PassPermission
  \/ PassInterrupt
  \/ PassOp
  \/ PassFlowNotcode
  \/ PassFlowCode
  \/ PassLinearSweep
  \/ PassLabel
  \/ Build

Spec == Init /\ [][Next]_vars

(***************************************************************************)
(* The state at the end of each of the first passes, once the pass has     *)
(* ended.                                                                  *)
(***************************************************************************)
AfterCdl == trail[1]

AfterPermission == trail[2]

AfterInterrupt == trail[3]

AfterOp == trail[4]

AfterFlowNotcode == trail[5]

AfterFlowCode == trail[6]

(***************************************************************************)
(* Vocabulary of the properties.                                           *)
(***************************************************************************)
Cells == DOMAIN analysis.at

AfterOpPcs == {"flow_notcode", "flow_code", "linear_sweep", "label", "build", "done"}

AfterSweepPcs == {"label", "build", "done"}

EnabledVectors ==
  (IF config.use_nmi THEN {NMI_VECTOR} ELSE {}) \cup
  (IF config.use_reset THEN {RESET_VECTOR} ELSE {}) \cup
  (IF config.use_irq THEN {IRQ_VECTOR} ELSE {})

\* The destinations the enabled interrupt vectors hold.
EnabledHandlerDsts ==
  {x.addr : x \in UNION {fetch_addr(input.memory, v) : v \in EnabledVectors}}

NonExecutable(a) == "X" \notin Get(input.permissions, a)

\* The instruction at a is fetched whole and its operand is a pointer that
\* wraps in its page: Ind(abs) with low byte 0xFF, IndX(0xFF) or IndY(0xFF).
HoldsWrappingPointer(a) ==
  LET f == fetch_op(input.memory, a)
  IN  /\ f.tag = "Ok"
      /\ \/ addressing(f.op.opcode) = "Ind" /\ f.op.arg % 256 = 255
         \/ addressing(f.op.opcode) \in {"IndX", "IndY"} /\ f.op.arg = 255

\* Every operand byte of the whole instruction at a Code address a is
\* classified in the analysis an.
OperandsClassified(an, a) ==
  LET f == fetch_op(input.memory, a)
  IN  (Get(an, a) = "Code" /\ f.tag = "Ok") =>
        \A i \in 1 .. op_len(f.op.opcode) - 1 : Get(an, a + i) # "Unknown"

(***************************************************************************)
(* C1.  Monotonicity: every pass leaves each address that is Code or       *)
(* NotCode as it is; the only changes are Unknown -> Code and              *)
(* Unknown -> NotCode.  Stated over every step, for the tracked cells and  *)
(* for the uniform remainder.                                              *)
(***************************************************************************)
C1_Monotonicity ==
  [][/\ \A a \in Cells : analysis.at[a] # "Unknown" => analysis'.at[a] = analysis.at[a]
     /\ analysis.rest # "Unknown" => analysis'.rest = analysis.rest]_vars

\* The analysis is finished; an address made Code by Pass 1 that is not
\* executable is still Code, and an address that was NotCode when an enabled
\* vector named it as its handler is still NotCode.
C1_Witness ==
  /\ pc = "done"
  /\ \E a \in Cells :
       /\ Get(AfterCdl.analysis, a) = "Code"
       /\ NonExecutable(a)
       /\ analysis.at[a] = "Code"
  /\ \E b \in EnabledHandlerDsts :
       /\ Get(AfterPermission.analysis, b) = "NotCode"
       /\ analysis.at[b] = "NotCode"

(***************************************************************************)
(* C2.  Sum: after the sweep the statement list is not empty, the          *)
(* statements lie one after the other from the start of the target bank,   *)
(* each within the bank and each holding the bank's bytes at its place,    *)
(* the lengths add up to the bank's length, and build() returns Ok.        *)
(***************************************************************************)
StatementAt(stmt, bytes) ==
  CASE stmt.kind = "Op" -> stmt.op.opcode = bytes[1] /\ Len(bytes) = op_len(bytes[1])
    [] stmt.kind = "IncompleteOp" -> stmt.buf = bytes
    [] stmt.kind = "Byte" -> bytes = << stmt.byte >>

RECURSIVE Tiles(_, _, _)
Tiles(ss, off, body) ==
  IF ss = << >> THEN off = Len(body)
  ELSE LET n == Statement_len(Head(ss))
       IN  /\ n >= 1
           /\ off + n <= Len(body)
           /\ StatementAt(Head(ss), SubSeq(body, off + 1, off + n))
           /\ Tiles(Tail(ss), off + n, body)

C2_Sum ==
  /\ pc \in AfterSweepPcs =>
       /\ stmts # << >>
       /\ Tiles(stmts, 0, target_bank(input).body)
       /\ SumLen(stmts) = Len(target_bank(input).body)
  /\ pc = "build" => BuildResult.tag = "Ok"
  /\ pc = "done" => asm # None /\ Unwrap(asm).statements = stmts

\* A finished run whose statement list holds a whole instruction of more
\* than one byte or a truncated instruction, and a data byte.
C2_Witness ==
  /\ pc = "done"
  /\ Len(stmts) >= 2
  /\ \E i \in 1 .. Len(stmts) : stmts[i].kind = "IncompleteOp"
  /\ \E i \in 1 .. Len(stmts) : stmts[i].kind = "Byte"

(***************************************************************************)
(* C3.  Infallibility: analyze never panics: no failed assertion in Pass   *)
(* 5a or 5b, no in-degree underflow, the vertex C never popped, no         *)
(* pointer + 1 overflow in the read candidates, no unreachable!() in the   *)
(* sweep, no error from build().                                           *)
(***************************************************************************)
C3_Infallible == pc # "panicked"

\* A finished run over a bank that holds, at an executable address nothing
\* annotates, an official instruction whose read candidates would overflow.
C3_Witness ==
  /\ pc = "done"
  /\ asm # None
  /\ \E a \in Cells :
       LET f == fetch_op(input.memory, a)
       IN  /\ f.tag = "Ok"
           /\ Get(AfterInterrupt.analysis, a) = "Unknown"
           /\ Op_is_official(f.op)
           /\ op_read_candidates(f.op).panic

(***************************************************************************)
(* C4.  Operand exclusion.  As amended: at the end of Pass 4 and of Pass   *)
(* 5a every operand byte of every whole instruction at a Code address is   *)
(* Code or NotCode; at the end of every later pass this holds for the      *)
(* addresses that were Code at the end of Pass 4.                          *)
(***************************************************************************)
C4_OperandExclusion ==
  /\ pc \in {"flow_notcode", "flow_code"} =>
       \A a \in Cells : OperandsClassified(analysis, a)
  /\ pc \in {"linear_sweep", "label", "build", "done"} =>
       LET a4 == AfterOp.analysis
       IN  \A a \in Cells : Get(a4, a) = "Code" => OperandsClassified(analysis, a)

\* Pass 4 has run and has made NotCode an operand byte that was Unknown.
C4_Witness ==
  /\ pc = "flow_notcode"
  /\ \E a \in Cells :
       LET f == fetch_op(input.memory, a)
       IN  /\ analysis.at[a] = "Code"
           /\ f.tag = "Ok"
           /\ op_len(f.op.opcode) >= 2
           /\ Get(analyze_invalid_op(AfterInterrupt, env).analysis, a + 1) = "Unknown"
           /\ Get(analysis, a + 1) = "NotCode"

\* C4 as the specification states it: the exclusion at the end of Pass 4
\* and of every later pass, for every Code address.
C4_AsStated ==
  pc \in AfterOpPcs => \A a \in Cells : OperandsClassified(analysis, a)

(***************************************************************************)
(* C5.  Pointer page-wrap safety.  As amended: in the final analysis a     *)
(* Code address that holds a whole instruction with a wrapping pointer     *)
(* operand has the CDL opcode bit or is the destination of an enabled      *)
(* interrupt vector.                                                       *)
(***************************************************************************)
C5_PageWrapSafety ==
  pc = "done" =>
    \A a \in Cells :
      (analysis.at[a] = "Code" /\ HoldsWrappingPointer(a)) =>
        (Cdl_is_opcode(input.cdl, a) \/ a \in EnabledHandlerDsts)

\* A finished run with an executable, unannotated address that holds a
\* wrapping pointer instruction and is NotCode.
C5_Witness ==
  /\ pc = "done"
  /\ \E a \in Cells :
       /\ HoldsWrappingPointer(a)
       /\ ~NonExecutable(a)
       /\ Get(input.cdl, a) = 0
       /\ a \notin EnabledHandlerDsts
       /\ analysis.at[a] = "NotCode"

\* C5 as the specification states it: no Code address of the final
\* analysis holds a wrapping pointer instruction.
C5_AsStated ==
  pc = "done" => \A a \in Cells : analysis.at[a] = "Code" => ~HoldsWrappingPointer(a)

(***************************************************************************)
(* C6.  Reachability.  As amended: every Code address of the final         *)
(* analysis is (a) marked opcode by the CDL, or (b) the destination of an  *)
(* enabled interrupt vector that Pass 3 made Code, or (c) reached from an  *)
(* address of kind (a) or (b) by a chain of unique live concrete           *)
(* successors, or (d) an address of the target bank that was Unknown at    *)
(* the end of Pass 5b and at which the sweep emitted an instruction.       *)
(***************************************************************************)
CdlOpcodeSeeds == {a \in Cells : Cdl_is_opcode(input.cdl, a)}

HandlerSeeds ==
  LET a3 == AfterInterrupt.analysis
  IN  {a \in EnabledHandlerDsts : Get(a3, a) = "Code"}

\* The one successor of x the forward walk follows in the analysis an: all
\* successors of the instruction at x are concrete and exactly one of them
\* is not NotCode.
LiveUniqueSucc(an, x) ==
  LET unique(live) == IF Cardinality(live) = 1 THEN live ELSE {}
      of(s) ==
        IF \A i \in 1 .. Len(s) : s[i].kind = "Addr"
        THEN unique({s[i].addr : i \in {j \in 1 .. Len(s) :
                                          Get(an, s[j].addr) # "NotCode"}})
        ELSE {}
      from(succ) == IF succ = None THEN {} ELSE of(Unwrap(succ))
  IN  from(get_succ_addrs(input, x))

RECURSIVE WalkClosure(_, _)
WalkClosure(an, S) ==
  LET grow(T) == IF T = S THEN S ELSE WalkClosure(an, T)
  IN  grow(S \cup UNION {LiveUniqueSucc(an, x) : x \in S})

\* The addresses the forward walk of Pass 5b can reach.
WalkReached == WalkClosure(AfterFlowNotcode.analysis, CdlOpcodeSeeds \cup HandlerSeeds)

RECURSIVE StartsOfOps(_, _)
StartsOfOps(ss, addr) ==
  IF ss = << >> THEN {}
  ELSE (IF Head(ss).kind = "Op" THEN {addr} ELSE {})
         \cup StartsOfOps(Tail(ss), addr + Statement_len(Head(ss)))

\* The addresses the sweep made Code.
SweepMade ==
  LET a5 == AfterFlowCode.analysis
  IN  {a \in StartsOfOps(stmts, target_bank(input).addr) : Get(a5, a) = "Unknown"}

C6_Reachability ==
  pc = "done" =>
    /\ analysis.rest # "Code"
    /\ LET allowed == WalkReached \cup SweepMade
       IN  \A a \in Cells : analysis.at[a] = "Code" => a \in allowed

\* A finished run with a Code address only the walk accounts for and a
\* Code address only the sweep accounts for.
C6_Witness ==
  /\ pc = "done"
  /\ \E a \in WalkReached \ (CdlOpcodeSeeds \cup HandlerSeeds) : analysis.at[a] = "Code"
  /\ \E a \in SweepMade \ WalkReached : analysis.at[a] = "Code"

\* C6 as the specification states it: kinds (a), (b) and (c) only.
C6_AsStated ==
  pc = "done" => \A a \in Cells : analysis.at[a] = "Code" => a \in WalkReached

(***************************************************************************)
(* C7.  Entrypoint stickiness: no step removes a label or clears an        *)
(* entrypoint flag, and setting a label at an address stores the OR of     *)
(* the flag already there and the new one.                                 *)
(***************************************************************************)
EntrypointAt(ls, a) == \E l \in Get(ls, a) : l.entrypoint

C7_EntrypointSticky ==
  [][/\ \A a \in DOMAIN labels.at :
          /\ labels.at[a] # None => labels'.at[a] # None
          /\ EntrypointAt(labels, a) => EntrypointAt(labels', a)
          /\ \A e \in BOOLEAN :
               Get(Labels_set(labels, a, Label_new(e)), a)
                 = Some(Label_new(e \/ EntrypointAt(labels, a)))
     /\ labels'.rest = None]_vars

\* A finished run in which an address that Pass 1 or Pass 3 labelled as an
\* entrypoint is also the destination of a Code jump in the target bank,
\* for which Pass 7 sets a plain label; the label is still an entrypoint.
C7_Witness ==
  /\ pc = "done"
  /\ \E a \in Cells :
       /\ EntrypointAt(AfterInterrupt.labels, a)
       /\ EntrypointAt(labels, a)
       /\ \E b \in Cells :
            LET f == fetch_op(input.memory, b)
            IN  /\ Bank_contains_addr(target_bank(input), b)
                /\ analysis.at[b] = "Code"
                /\ f.tag = "Ok"
                /\ f.op.opcode = OPC_JMP_ABS
                /\ f.op.arg = a

(***************************************************************************)
(* C8.  CDL override: from the end of Pass 1 on, an address with the CDL   *)
(* opcode bit is Code, and an address with the data bit and without the    *)
(* opcode bit is NotCode.                                                  *)
(***************************************************************************)
C8_CdlOverride ==
  pc # "cdl" /\ pc # "panicked" =>
    /\ \A a \in Cells :
         /\ Cdl_is_opcode(input.cdl, a) => analysis.at[a] = "Code"
         /\ (~Cdl_is_opcode(input.cdl, a) /\ Cdl_is_data(input.cdl, a)) =>
              analysis.at[a] = "NotCode"
    /\ Bit(input.cdl.rest, 0) => analysis.rest = "Code"
    /\ (~Bit(input.cdl.rest, 0) /\ Bit(input.cdl.rest, 1)) => analysis.rest = "NotCode"

\* A finished run with an address that has both CDL bits, is not executable
\* and is Code, and a data address an enabled vector points at that is
\* NotCode.
C8_Witness ==
  /\ pc = "done"
  /\ \E a \in Cells :
       /\ Cdl_is_opcode(input.cdl, a)
       /\ Cdl_is_data(input.cdl, a)
       /\ NonExecutable(a)
       /\ analysis.at[a] = "Code"
  /\ \E b \in EnabledHandlerDsts :
       /\ ~Cdl_is_opcode(input.cdl, b)
       /\ Cdl_is_data(input.cdl, b)
       /\ analysis.at[b] = "NotCode"

(***************************************************************************)
(* C9.  Permission rule: from the end of Pass 2 on, an address that is     *)
(* not executable is NotCode, or Code when its CDL opcode bit is set;      *)
(* Pass 2 changes no executable address and never turns Code into          *)
(* NotCode.                                                                *)
(***************************************************************************)
PermissionRuleHolds(an) ==
  /\ \A a \in Cells :
       NonExecutable(a) =>
         an.at[a] = (IF Cdl_is_opcode(input.cdl, a) THEN "Code" ELSE "NotCode")
  /\ "X" \notin input.permissions.rest =>
       an.rest = (IF Bit(input.cdl.rest, 0) THEN "Code" ELSE "NotCode")

C9_PermissionRule ==
  [][/\ pc' \notin {"cdl", "permission", "panicked"} => PermissionRuleHolds(analysis')
     /\ pc = "permission" =>
          /\ \A a \in Cells :
               /\ ~NonExecutable(a) => analysis'.at[a] = analysis.at[a]
               /\ analysis.at[a] = "Code" => analysis'.at[a] = "Code"
          /\ "X" \in input.permissions.rest => analysis'.rest = analysis.rest]_vars

\* A finished run with a bank address that is not executable and NotCode
\* and an address that is not executable, has the opcode bit and is Code.
C9_Witness ==
  /\ pc = "done"
  /\ \E a \in Cells :
       /\ NonExecutable(a)
       /\ find_bank_id(input.memory, a) # None
       /\ ~Cdl_is_opcode(input.cdl, a)
       /\ analysis.at[a] = "NotCode"
  /\ \E b \in Cells :
       /\ NonExecutable(b)
       /\ Cdl_is_opcode(input.cdl, b)
       /\ analysis.at[b] = "Code"

(***************************************************************************)
(* C10.  Scenario S5: for the single bank [0x10, 0xFE] at 0x8000, readable *)
(* and executable, nothing else permitted, the CDL all zero and the        *)
(* default configuration, Pass 4 does not make 0x8000 NotCode and the      *)
(* sweep yields exactly [Op(Bpl(-2))] with a label at 0x8000.              *)
(***************************************************************************)
IsScenarioS5 ==
  /\ input.memory = << Bank(TARGET_ADDR, << 16, 254 >>, FALSE) >>
  /\ \A a \in Cells :
       /\ Get(input.permissions, a)
            = (IF Bank_contains_addr(input.memory[1], a) THEN RX ELSE {})
       /\ Get(input.cdl, a) = 0
  /\ input.permissions.rest = {}
  /\ input.cdl.rest = 0
  /\ config = AnalysisConfig_default

C10_ScenarioS5 ==
  IsScenarioS5 =>
    /\ pc \in AfterOpPcs => Get(analysis, TARGET_ADDR) # "NotCode"
    /\ pc \in AfterSweepPcs =>
         /\ stmts = << [kind |-> "Op", op |-> [opcode |-> 16, arg |-> -2]] >>
         /\ Get(labels, TARGET_ADDR) # None

(***************************************************************************)
(* Scenarios on a single bank at 0x8000, CDL all zero, default config.     *)
(***************************************************************************)
\* The input is the single bank `body` at 0x8000 (the target), the
\* permissions are `perm_of` on the bank and nothing elsewhere, the CDL is
\* all zero and the configuration is the default one.
IsScenario(body, perm_of(_)) ==
  /\ input.memory = << Bank(TARGET_ADDR, body, FALSE) >>
  /\ \A a \in Cells :
       /\ Get(input.permissions, a)
            = (IF Bank_contains_addr(input.memory[1], a) THEN perm_of(a) ELSE {})
       /\ Get(input.cdl, a) = 0
  /\ input.permissions.rest = {}
  /\ input.cdl.rest = 0
  /\ config = AnalysisConfig_default

ByteStmt(b) == [kind |-> "Byte", byte |-> b]

OpStmt(opcode, arg) == [kind |-> "Op", op |-> [opcode |-> opcode, arg |-> arg]]

\* The addresses that carry a label.
Labelled == {a \in Cells : Get(labels, a) # None}

IsScenarioS6 ==
  IsScenario(<< 169, 1, 96 >>, LAMBDA a : IF a = TARGET_ADDR THEN {"R"} ELSE RX)

\* C11 (scenario S6), as the code behaves: with the bank [0xA9, 0x01, 0x60]
\* at 0x8000 whose first byte is not executable, 0x8000 is NotCode from
\* Pass 2 on and 0x8001 (ORA ($60,X), reading an unreadable zero page and
\* running off the bank) from Pass 4 on; 0x8002 (RTS) is never NotCode, the
\* sweep makes it Code and the statements are Byte(0xA9), Byte(0x01), Op(Rts).
C11_ScenarioS6 ==
  IsScenarioS6 =>
    /\ pc \in AfterOpPcs =>
         /\ Get(analysis, TARGET_ADDR) = "NotCode"
         /\ Get(analysis, TARGET_ADDR + 1) = "NotCode"
         /\ Get(analysis, TARGET_ADDR + 2) # "NotCode"
    /\ pc \in AfterSweepPcs =>
         /\ Get(analysis, TARGET_ADDR + 2) = "Code"
         /\ stmts = << ByteStmt(169), ByteStmt(1), OpStmt(OPC_RTS, 0) >>

C11_Witness == IsScenarioS6 /\ pc = "done" /\ Len(stmts) = 3

\* C11 as stated: the three addresses end NotCode and the sweep emits the
\* three bytes.
C11_AsStated ==
  IsScenarioS6 /\ pc \in AfterSweepPcs =>
    /\ \A a \in TARGET_ADDR .. TARGET_ADDR + 2 : Get(analysis, a) = "NotCode"
    /\ stmts = << ByteStmt(169), ByteStmt(1), ByteStmt(96) >>

(***************************************************************************)
(* Calls of the library functions on their own: the state is one call and  *)
(* its result, the variables of analyze are idle.                          *)
(***************************************************************************)
Idle ==
  /\ input = << >>
  /\ config = << >>
  /\ analysis = << >>
  /\ labels = << >>
  /\ stmts = << >>
  /\ asm = None
  /\ pc = "idle"
  /\ trail = << >>

\* The longest bank body of the library calls.
MaxBody == 3

\* RTS, LDA #imm and JMP abs: opcodes of length 1, 2 and 3.
BodyBytes == {96, 169, 76}

RECURSIVE BodiesUpTo(_)
BodiesUpTo(n) ==
  IF n = 0 THEN { << >> }
  ELSE LET shorter == BodiesUpTo(n - 1)
       IN  shorter \cup {Append(b, x) : b \in shorter, x \in BodyBytes}

CallBodies == BodiesUpTo(MaxBody) \ { << >> }

\* One bank at base, or that bank and a second one right behind it.
MemoriesAt(base) ==
  {<< Bank(base, b, FALSE) >> : b \in CallBodies} \cup
  {<< Bank(base, b, FALSE), Bank(base + Len(b), c, TRUE) >> :
     b \in CallBodies, c \in CallBodies}

CallMemories == MemoriesAt(TARGET_ADDR)

FetchOpCalls ==
  {[fn |-> "fetch_op", memory |-> m, addr |-> a] :
     m \in CallMemories, a \in TARGET_ADDR - 1 .. TARGET_ADDR + 2 * MaxBody}

(***************************************************************************)
(* Boundary B2: a branch whose destination underflows                      *)
(***************************************************************************)
\* Unknown when Pass 4 starts, and a whole conditional branch with the
\* operand byte 0x80 at an address below 126.
IsUnderflowingBranch(a) ==
  /\ a < 126
  /\ Get(AfterInterrupt.analysis, a) = "Unknown"
  /\ \E f \in {fetch_op(input.memory, a)} :
       /\ f.tag = "Ok"
       /\ opcode_is_branch(f.op.opcode)
       /\ f.op.arg = -128

\* C13 (boundary B2): an address below 126 that is Unknown when Pass 4
\* starts and holds a whole conditional branch with rel = -128 is NotCode
\* when Pass 4 ends.
C13_BranchUnderflow ==
  pc \in AfterOpPcs =>
    \A a \in Cells : IsUnderflowingBranch(a) => Get(AfterOp.analysis, a) = "NotCode"

C13_Witness ==
  /\ pc = "flow_notcode"
  /\ \E a \in Cells : a = 125 /\ IsUnderflowingBranch(a)

\* resolve_op_succ of JMP (ptr) for the pointers around 0x80FF, on banks
\* that start at 0x80FE.
ResolveCalls ==
  {[fn |-> "resolve_op_succ", memory |-> m, addr |-> TARGET_ADDR,
    succ |-> [kind |-> "JmpInd", val |-> ptr]] :
     m \in MemoriesAt(TARGET_ADDR + 254),
     ptr \in TARGET_ADDR + 253 .. TARGET_ADDR + 254 + 2 * MaxBody}

\* Banks at 0x8000 that start with JMP (ptr): ptr = 0x80FF, 0x8001, 0x8002
\* (one byte left in the bank), 0x9000 (in no bank), 0x8003 (the word
\* 0x8000); and JMP ($8002) with a second bank starting at 0x8003.
JmpIndMemories ==
  {<< Bank(TARGET_ADDR, b, FALSE) >> :
     b \in {<< 108, 255, 128 >>, << 108, 1, 128 >>, << 108, 2, 128 >>,
            << 108, 0, 144 >>, << 108, 3, 128, 0, 128 >>}} \cup
  {<< Bank(TARGET_ADDR, << 108, 2, 128 >>, FALSE), Bank(TARGET_ADDR + 3, << 128 >>, f) >> :
     f \in BOOLEAN}

TransposeCalls ==
  {[fn |-> "make_transpose_graph",
    input |-> MakeInput([memory |-> m, target_bank_id |-> 0], p, CdlOf(<< >>))] :
     m \in JmpIndMemories, p \in {[at |-> << >>, rest |-> RWX]}}

(***************************************************************************)
(* Scenarios S3, S1 and S2                                                 *)
(***************************************************************************)
AllRX(a) == RX

IsScenarioS3 == IsScenario(<< 32, 4, 128, 96, 234, 96 >>, AllRX)

\* C15 (scenario S3): JSR $8004; RTS; NOP; RTS at 0x8000 gives the statements
\* Op(Jsr(0x8004)), Op(Rts), Op(Nop), Op(Rts), a label at 0x8000 and an
\* entrypoint label at 0x8004.
C15_ScenarioS3 ==
  IsScenarioS3 /\ pc \in {"build", "done"} =>
    /\ stmts = << OpStmt(OPC_JSR, TARGET_ADDR + 4), OpStmt(OPC_RTS, 0),
                  OpStmt(234, 0), OpStmt(OPC_RTS, 0) >>
    /\ Get(labels, TARGET_ADDR) # None
    /\ Get(labels, TARGET_ADDR + 4) = Some(Label_new(TRUE))

C15_Witness ==
  /\ IsScenarioS3
  /\ pc = "done"
  /\ Get(labels, TARGET_ADDR + 4) = Some(Label_new(TRUE))

IsScenarioS1 == IsScenario(<< 169, 1, 96 >>, AllRX)

\* C16 (scenario S1): LDA #1; RTS at 0x8000 gives the statements
\* Op(LdaImm(1)), Op(Rts) and a label at 0x8000 and nowhere else.
C16_ScenarioS1 ==
  IsScenarioS1 /\ pc \in {"build", "done"} =>
    /\ stmts = << OpStmt(169, 1), OpStmt(OPC_RTS, 0) >>
    /\ Labelled = {TARGET_ADDR}
    /\ labels.rest = None

C16_Witness == IsScenarioS1 /\ pc = "done" /\ Labelled = {TARGET_ADDR}

IsScenarioS2 == IsScenario(<< 76, 0, 128 >>, AllRX)

\* C17 (scenario S2): JMP $8000 at 0x8000 gives the statement
\* Op(JmpAbs(0x8000)) and one label, at 0x8000, that is not an entrypoint.
C17_ScenarioS2 ==
  IsScenarioS2 /\ pc \in {"build", "done"} =>
    /\ stmts = << OpStmt(OPC_JMP_ABS, TARGET_ADDR) >>
    /\ Labelled = {TARGET_ADDR}
    /\ labels.rest = None
    /\ Get(labels, TARGET_ADDR) = Some(Label_new(FALSE))

C17_Witness ==
  /\ IsScenarioS2
  /\ pc = "done"
  /\ Get(labels, TARGET_ADDR) = Some(Label_new(FALSE))

(***************************************************************************)
(* Inputs of the calls of Op::fetch and Op::to_bytes.                      *)
(***************************************************************************)
ByteValues == {0, 1, 127, 128, 255}

AddressValues == {0, 255, 256, 4660, 32767, 32768, 65535}

RelValues == {0 - 128, 0 - 1, 0, 1, 127}

OperandBytes(n) ==
  CASE n = 0 -> {<< >>}
    [] n = 1 -> {<< x >> : x \in ByteValues}
    [] n = 2 -> {<< x, y >> : x \in ByteValues, y \in ByteValues}

\* every first byte, with operand bytes of the length of the instruction
WellSizedBufs ==
  UNION {{<< b >> \o t : t \in OperandBytes(operand_len(b))} : b \in 0 .. 255}

\* buffers of another length than the instruction (the empty one included)
IllSizedBufs ==
  {<< >>} \cup {<< b, 1, 2, 3 >> : b \in {0, 169, 76}} \cup {<< b >> : b \in {169, 76}}

PayloadValues(payload) ==
  CASE payload = "none" -> {0}
    [] payload \in {"u8", "ZpAddress"} -> ByteValues
    [] payload = "Address" -> AddressValues
    [] payload = "i8" -> RelValues

\* every value of the Op enum over the payload values above
OpValues ==
  UNION {{[variant |-> OP_VARIANTS[i].variant, arg |-> x] :
            x \in PayloadValues(OP_VARIANTS[i].payload)} : i \in DOMAIN OP_VARIANTS}

OpFetchCalls == {[fn |-> "Op::fetch", buf |-> b] : b \in WellSizedBufs \cup IllSizedBufs}

OpToBytesCalls == {[fn |-> "Op::to_bytes", op |-> o] : o \in OpValues}

(***************************************************************************)
(* Inputs of the calls of Memory::new: up to MaxBanks banks, each of 1 to  *)
(* 3 bytes at one of three neighbouring addresses, so that lists hold      *)
(* disjoint, adjacent, overlapping and nested banks.                       *)
(***************************************************************************)
MaxBanks == 3

BankChoices ==
  {Bank(TARGET_ADDR + d, b, FALSE) :
     d \in 0 .. 2, b \in {<< 234 >>, << 234, 96 >>, << 169, 1, 96 >>}}

RECURSIVE BankListsUpTo(_)
BankListsUpTo(n) ==
  IF n = 0 THEN {<< >>}
  ELSE LET shorter == BankListsUpTo(n - 1)
       IN  shorter \cup {Append(s, b) : s \in {t \in shorter : Len(t) = n - 1}, b \in BankChoices}

\* the addresses find_bank_id is asked about: around the banks, and the two
\* ends of the address space
ProbeAddrs == (TARGET_ADDR - 1) .. (TARGET_ADDR + 5) \cup {0, ADDR_MAX}

MemoryNewCalls == {[fn |-> "Memory::new", banks |-> bs] : bs \in BankListsUpTo(MaxBanks)}

(***************************************************************************)
(* Inputs of the additions of Address: addresses and offsets at and around *)
(* the ends of 0..=0xFFFF, offsets of more than one address space included.*)
(***************************************************************************)
EdgeAddrs == {0, 1, 255, 256, 32767, 32768, ADDR_MAX - 1, ADDR_MAX}

UnsignedOffsets == {0, 1, 2, 255, 256, 32768, ADDR_MAX, AddressSpace, AddressSpace + 1, 2 * AddressSpace - 1}

SignedOffsets == UnsignedOffsets \cup {0 - d : d \in UnsignedOffsets} \cup {0 - 128, 127, 0 - 32768, 32767}

AddCalls ==
  {[fn |-> "add_unsigned", a |-> a, d |-> d] : a \in EdgeAddrs, d \in UnsignedOffsets}
    \cup {[fn |-> "add_signed", a |-> a, d |-> d] : a \in EdgeAddrs, d \in SignedOffsets}

(***************************************************************************)
(* Inputs of the calls of AssemblyBuilder::build: each of the four fields  *)
(* supplied or not; statement lists of 0 to 3 bytes in all, ranges of 1 to *)
(* 3 addresses.                                                            *)
(***************************************************************************)
BuilderRanges == {from_start_len(TARGET_ADDR, n) : n \in 1 .. 3}

BuilderStatements ==
  {<< >>,
   << ByteStmt(234) >>,
   << OpStmt(OPC_RTS, 0) >>,
   << ByteStmt(0), ByteStmt(1) >>,
   << [kind |-> "IncompleteOp", buf |-> << OPC_JMP_ABS, 0 >>] >>,
   << OpStmt(169, 1), ByteStmt(96) >>,
   << OpStmt(OPC_JMP_ABS, TARGET_ADDR) >>}

BuilderLabels ==
  {[at |-> [a \in {TARGET_ADDR} |-> l], rest |-> None] : l \in {None, Some(Label_new(TRUE))}}

OptionOf(S) == {None} \cup {Some(x) : x \in S}

Builders ==
  [bank_addr_range : OptionOf(BuilderRanges), bank_name : OptionOf({"PRG"}),
   statements : OptionOf(BuilderStatements), labels : OptionOf(BuilderLabels)]

BuildCalls == {[fn |-> "AssemblyBuilder::build", builder |-> b] : b \in Builders}

(***************************************************************************)
(* Inputs of the calls of get_succ_addrs: a bank at 0x8000 and a bank at   *)
(* 0x9000, each fixed or not, holding one instruction that goes to its own *)
(* bank, to the other bank or to an address of no bank.                    *)
(***************************************************************************)
OTHER_ADDR == TARGET_ADDR + 4096

SuccBodies ==
  { << 76, 0, 128 >>, << 76, 0, 144 >>, << 76, 0, 160 >>,
    << 32, 2, 144 >>, << 108, 0, 144 >>, << 108, 255, 144 >>, << 96 >>,
    << 208, 254 >>, << 234 >>, << 234, 234 >>, << 0 >>, << 76, 0 >> }

SuccMemories ==
  {<< Bank(TARGET_ADDR, b1, f1), Bank(OTHER_ADDR, b2, f2) >> :
     b1 \in SuccBodies, b2 \in {<< 96, 0, 128 >>, << 76, 0, 128 >>}, f1 \in BOOLEAN, f2 \in BOOLEAN}

SuccCalls ==
  {[fn |-> "get_succ_addrs", input |-> [memory |-> m], addr |-> a] :
     m \in SuccMemories, a \in {TARGET_ADDR, TARGET_ADDR + 1, OTHER_ADDR}}

(***************************************************************************)
(* Inputs of the calls of op_reads_unreadable_addr and                     *)
(* op_writes_unwritable_addr: every opcode with a few operands, and        *)
(* permissions that are the same everywhere but at one address at most.    *)
(***************************************************************************)
RuleOperands(n) ==
  CASE n = 0 -> {<< >>}
    [] n = 1 -> {<< 0 >>, << 127 >>, << 255 >>}
    [] n = 2 -> {<< 0, 0 >>, << 255, 0 >>, << 0, 1 >>, << 255, 255 >>}

RuleOps ==
  UNION {{Op_fetch(<< b >> \o t) : t \in RuleOperands(operand_len(b))} : b \in 0 .. 255}

RuleAddrs == {0, 1, 128, 254, 255, 256, 65535}

RulePerms ==
  {[at |-> << >>, rest |-> r] : r \in {{}, {"R"}, {"W"}}}
    \cup {[at |-> (a :> ({"R", "W"} \ r)), rest |-> r] : a \in RuleAddrs, r \in {{}, {"R"}, {"W"}}}

ReadRuleCalls ==
  {[fn |-> "op_reads_unreadable_addr", perms |-> p, op |-> o] : p \in RulePerms, o \in RuleOps}

WriteRuleCalls ==
  {[fn |-> "op_writes_unwritable_addr", perms |-> p, op |-> o] : p \in RulePerms, o \in RuleOps}

(***************************************************************************)
(* Inputs of the calls of is_invalid_op: the instructions of a bank at     *)
(* 0x8000, alone or with a bank right behind it, or of a bank that ends at *)
(* 0xFFFF; every address has every permission.                             *)
(***************************************************************************)
\* NOP -- LDA #1 -- NOP; NOP -- BRK -- RTI -- RTS -- JSR $0000 -- JMP $0000
\* -- JMP ($0000) -- LDA $8000 -- NOP; LDA #1 -- NOP; RTS
InvalidOpBodies ==
  { << 234 >>, << 169, 1 >>, << 234, 234 >>, << 0 >>, << 64 >>, << 96 >>, << 32, 0, 0 >>,
    << 76, 0, 0 >>, << 108, 0, 0 >>, << 173, 0, 128 >>, << 234, 169, 1 >>, << 234, 96 >> }

InvalidOpMemories ==
  {<< Bank(TARGET_ADDR, b, FALSE) >> : b \in InvalidOpBodies}
    \cup {<< Bank(ADDR_MAX + 1 - Len(b), b, FALSE) >> : b \in InvalidOpBodies}
    \cup {<< Bank(TARGET_ADDR, b, FALSE), Bank(TARGET_ADDR + Len(b), << 96 >>, FALSE) >> :
            b \in InvalidOpBodies}

InvalidOpCalls ==
  {c \in UNION {{[fn |-> "is_invalid_op",
                  input |-> [memory |-> m, permissions |-> [at |-> << >>, rest |-> {"R", "W", "X"}]],
                  config |-> cf, addr |-> a] :
                   a \in m[1].addr .. m[1].addr + Len(m[1].body) - 1,
                   cf \in {AnalysisConfig_default, AllowAllConfig}} :
                m \in InvalidOpMemories} :
     fetch_op(c.input.memory, c.addr).tag = "Ok"}

(***************************************************************************)
(* Inputs of the calls of get_stmt: an address of a bank whose last        *)
(* instruction is whole or cut, with each classification of the address.   *)
(***************************************************************************)
\* LDA #1 -- LDA # -- JMP $..00 -- JMP $8000 -- NOP; JMP -- RTS; LDA $..00
\* -- ISC abs,X
GetStmtBodies ==
  { << 169, 1 >>, << 169 >>, << 76, 0 >>, << 76, 0, 128 >>, << 234, 76 >>,
    << 96, 173, 0 >>, << 255 >> }

GetStmtCalls ==
  UNION {{[fn |-> "get_stmt",
           input |-> [memory |-> << Bank(TARGET_ADDR, b, FALSE) >>, target_bank_id |-> 0],
           analysis |-> [at |-> (a :> k), rest |-> "Unknown"], addr |-> a] :
            a \in TARGET_ADDR .. TARGET_ADDR + Len(b) - 1,
            k \in {"Unknown", "Code", "NotCode"}} :
         b \in GetStmtBodies}

(***************************************************************************)
(* Inputs of the calls of label::analyze: a bank at 0x8000 and a bank at   *)
(* 0x9000, each fixed or not, either the target; the first address of      *)
(* either bank or of both is Code, and there is no label yet.              *)
(***************************************************************************)
\* JMP $9000 -- LDA $9000 -- JMP $8000 -- LDA $0010 -- JSR $9001
LabelBodiesLow ==
  { << 76, 0, 144 >>, << 173, 0, 144 >>, << 76, 0, 128 >>, << 173, 16, 0 >>, << 32, 1, 144 >> }

\* JMP $8000 -- LDA $8001 -- JMP $9000 -- LDA $0010 -- RTS; RTS
LabelBodiesHigh ==
  { << 76, 0, 128 >>, << 173, 1, 128 >>, << 76, 0, 144 >>, << 173, 16, 0 >>, << 96, 96 >> }

LabelCells(memory) == BankAddrs(memory) \cup {16}

LabelCalls ==
  UNION {{[fn |-> "label::analyze",
           input |-> [memory |-> m, target_bank_id |-> t],
           analysis |-> [at |-> [a \in LabelCells(m) |-> IF a \in codes THEN "Code" ELSE "Unknown"],
                         rest |-> "Unknown"],
           labels |-> [at |-> [a \in LabelCells(m) |-> None], rest |-> None]] :
            t \in {0, 1},
            codes \in {{TARGET_ADDR}, {OTHER_ADDR}, {TARGET_ADDR, OTHER_ADDR}}} :
         m \in {<< Bank(TARGET_ADDR, b1, f1), Bank(OTHER_ADDR, b2, f2) >> :
                  b1 \in LabelBodiesLow, b2 \in LabelBodiesHigh,
                  f1 \in BOOLEAN, f2 \in BOOLEAN}}

(***************************************************************************)
(* Inputs of the calls of cdl::analyze: a bank of two bytes at 0 or at     *)
(* 0x8000, and a CDL byte for each of its addresses, for the address       *)
(* before it and for the address behind it.                                *)
(***************************************************************************)
\* nothing, opcode, jump target, indirect data, PCM data, entrypoint,
\* indirect and PCM data
CdlBytes == {0, 1, 16, 32, 64, 128, 96}

CdlCallCells(base) == {a \in base - 1 .. base + 2 : a >= 0}

CdlCalls ==
  UNION {{[fn |-> "cdl::analyze",
           input |-> [memory |-> << Bank(base, << 234, 96 >>, FALSE) >>, target_bank_id |-> 0,
                      cdl |-> [at |-> f, rest |-> 0]]] :
            f \in [CdlCallCells(base) -> CdlBytes]} :
         base \in {0, TARGET_ADDR}}

LibCalls ==
  FetchOpCalls \cup ResolveCalls \cup TransposeCalls \cup OpFetchCalls \cup OpToBytesCalls
    \cup MemoryNewCalls \cup AddCalls
    \cup BuildCalls \cup SuccCalls \cup GetStmtCalls \cup LabelCalls \cup CdlCalls

LibInit ==
  /\ Idle
  /\ call \in LibCalls
  /\ ret = None
  /\ work = NoWork

Returns(fn, value) ==
  /\ call.fn = fn
  /\ ret = None
  /\ ret' = Some(value)
  /\ UNCHANGED << input, config, analysis, labels, stmts, asm, pc, trail, call, work >>

CallFetchOp == Returns("fetch_op", fetch_op(call.memory, call.addr))

CallResolveOpSucc ==
  Returns("resolve_op_succ", resolve_op_succ(call.memory, call.addr, call.succ))

\* make_transpose_graph on the analysis that is Unknown everywhere.
CallMakeTransposeGraph ==
  Returns("make_transpose_graph",
          make_transpose_graph(
            [at |-> [a \in DOMAIN call.input.cdl.at |-> "Unknown"], rest |-> "Unknown"],
            [input |-> call.input, config |-> AnalysisConfig_default]))

\* Op::fetch(buf), then to_bytes of the instruction it built.
CallOpFetch ==
  LET encode(r) ==
        IF r.panic THEN r ELSE [panic |-> FALSE, op |-> r.op, bytes |-> Op_to_bytes(r.op)]
  IN  Returns("Op::fetch", encode(Op_fetch_variant(call.buf)))

\* op.to_bytes(), then Op::fetch of these bytes.
CallOpToBytes ==
  LET decode(bytes) == [bytes |-> bytes, fetched |-> Op_fetch_variant(bytes)]
  IN  Returns("Op::to_bytes", decode(Op_to_bytes(call.op)))

\* Memory::new(banks), then find_bank_id at each probed address.
CallMemoryNew ==
  LET probe(m) ==
        IF m.panic THEN m
        ELSE [panic |-> FALSE, found |-> [a \in ProbeAddrs |-> Memory_find_bank_id(m, a)]]
  IN  Returns("Memory::new", probe(Memory_new(call.banks)))

\* The four additions of Address on the same address and offset; the two
\* with an unsigned offset are called with the offsets that are not negative.
CallAddUnsigned ==
  Returns("add_unsigned",
          [checked |-> checked_add_unsigned(call.a, call.d),
           wrapping |-> wrapping_add_unsigned(call.a, call.d)])

CallAddSigned ==
  Returns("add_signed",
          [checked |-> checked_add_signed(call.a, call.d),
           wrapping |-> wrapping_add_signed(call.a, call.d)])

\* AssemblyBuilder::build on a builder whose setters were called or not.
CallBuild == Returns("AssemblyBuilder::build", AssemblyBuilder_build(call.builder))

\* get_succ_addrs on an address of a memory of two banks.
CallGetSuccAddrs == Returns("get_succ_addrs", get_succ_addrs(call.input, call.addr))

\* op_reads_unreadable_addr; the unwrap of pointer + 1 in op_read_candidates
\* can fail, and then nothing is returned but the failure.
CallReadsUnreadable ==
  Returns("op_reads_unreadable_addr",
          IF op_read_candidates(call.op).panic THEN [panic |-> TRUE]
          ELSE [panic |-> FALSE, value |-> op_reads_unreadable_addr(call.perms, call.op)])

CallWritesUnwritable ==
  Returns("op_writes_unwritable_addr", op_writes_unwritable_addr(call.perms, call.op))

\* get_stmt at an address of the bank, classified one way or another.
CallGetStmt == Returns("get_stmt", get_stmt(call.analysis, call.input, call.addr))

\* label::analyze on an analysis and labels given.
CallLabelAnalyze ==
  Returns("label::analyze",
          label_analyze([analysis |-> call.analysis, labels |-> call.labels, panic |-> FALSE],
                        [input |-> call.input, config |-> AnalysisConfig_default]))

\* cdl::analyze on the analysis and the labels analyze starts with.
CallCdlAnalyze ==
  Returns("cdl::analyze",
          cdl_analyze([analysis |-> [at |-> [a \in DOMAIN call.input.cdl.at |-> "Unknown"],
                                     rest |-> "Unknown"],
                       labels |-> [at |-> [a \in DOMAIN call.input.cdl.at |-> None],
                                   rest |-> None],
                       panic |-> FALSE],
                      [input |-> call.input, config |-> AnalysisConfig_default]))

LibNext ==
  \/ CallFetchOp
  \/ CallResolveOpSucc
  \/ CallMakeTransposeGraph
  \/ CallOpFetch
  \/ CallOpToBytes
  \/ CallMemoryNew
  \/ CallAddUnsigned
  \/ CallAddSigned
  \/ CallBuild
  \/ CallGetSuccAddrs
  \/ CallGetStmt
  \/ CallLabelAnalyze
  \/ CallCdlAnalyze

LibSpec == LibInit /\ [][LibNext]_vars

(***************************************************************************)
(* The rules of Pass 4, called one at a time.                              *)
(***************************************************************************)
\* is_invalid_op at an address whose instruction is whole, as
\* analyze_invalid_op calls it, with the answer of the check of the successor.
CallIsInvalidOp ==
  LET run(f) ==
        [succ_ok |-> op_has_valid_succ(call.input.memory, call.addr, f.op, f.bank_id),
         result  |-> is_invalid_op([input |-> call.input, config |-> call.config],
                                   call.addr, f.op, f.bank_id)]
  IN  Returns("is_invalid_op", run(fetch_op(call.input.memory, call.addr)))

RuleInit ==
  /\ Idle
  /\ call \in ReadRuleCalls \cup WriteRuleCalls \cup InvalidOpCalls
  /\ ret = None
  /\ work = NoWork

RuleNext ==
  \/ CallReadsUnreadable
  \/ CallWritesUnwritable
  \/ CallIsInvalidOp

RuleSpec == RuleInit /\ [][RuleNext]_vars

(***************************************************************************)
(* Memory::fetch_op at the end of a bank                                   *)
(***************************************************************************)
Returned(fn) == call.fn = fn /\ ret # None

InBank(bank, a) == bank.addr <= a /\ a < bank.addr + Len(bank.body)

\* The bytes of the bank from a to its end.
Remaining(bank, a) == SubSeq(bank.body, a - bank.addr + 1, Len(bank.body))

FetchOpContract(memory, a, r) ==
  LET holders == {i \in 1 .. Len(memory) : InBank(memory[i], a)}
      in_bank(i, rem, n) ==
        /\ r.tag = "Ok" <=> Len(rem) >= n
        /\ r.tag = "Ok" =>
             /\ r.bank_id = i - 1
             /\ r.op = Op_fetch(SubSeq(rem, 1, n))
        /\ r.tag # "Ok" =>
             /\ r.tag = "Incomplete"
             /\ r.buf = rem
             /\ Len(rem) \in 1 .. 2
             /\ Len(rem) < n
  IN  /\ r.tag = "Nothing" <=> holders = {}
      /\ \A i \in holders :
           in_bank(i, Remaining(memory[i], a), op_len(memory[i].body[a - memory[i].addr + 1]))

\* C12: fetch_op returns Nothing iff the address is in no bank, Ok with the
\* bank id iff the bank holds op_len bytes from the address on, and
\* otherwise Incomplete with the one or two bytes left in that bank; bytes
\* of the bank behind are never used.
C12_FetchOpBoundary ==
  Returned("fetch_op") => FetchOpContract(call.memory, call.addr, Unwrap(ret))

\* JMP abs cut after two bytes by the end of its bank, with a bank behind.
C12_Witness ==
  /\ Returned("fetch_op")
  /\ Len(call.memory) = 2
  /\ Unwrap(ret).tag = "Incomplete"
  /\ Len(Unwrap(ret).buf) = 2

(***************************************************************************)
(* Boundary B3: JMP (ptr)                                                  *)
(***************************************************************************)
ByteAt(memory, a) ==
  CHOOSE x \in 0 .. 255 :
    \E i \in 1 .. Len(memory) :
      InBank(memory[i], a) /\ x = memory[i].body[a - memory[i].addr + 1]

\* The destination of JMP (ptr): none when the low byte of ptr is 0xFF or
\* when no bank holds both ptr and ptr + 1, else the word at ptr.
JmpIndDst(memory, ptr) ==
  IF ptr % 256 = 255 THEN None
  ELSE IF \E i \in 1 .. Len(memory) : InBank(memory[i], ptr) /\ InBank(memory[i], ptr + 1)
  THEN Some(ByteAt(memory, ptr) + 256 * ByteAt(memory, ptr + 1))
  ELSE None

\* The vertices with an edge from src in the graph whose transpose is graph_t.
SuccVertices(graph_t, src) ==
  {v \in DOMAIN graph_t : \E k \in 1 .. Len(graph_t[v]) : graph_t[v][k] = src}

\* C14 (boundary B3): resolve_op_succ of JmpInd(ptr) is JmpInd(None) when the
\* low byte of ptr is 0xFF, whatever the memory holds; for another ptr it is
\* the little-endian word at ptr when one bank holds both bytes and None
\* otherwise; and in the graph of Pass 5 an Unknown JMP (ptr) without
\* destination has exactly the edge to the vertex C.
C14_JmpIndPageWrap ==
  /\ Returned("resolve_op_succ") =>
       Unwrap(ret) = [kind |-> "JmpInd", dst |-> JmpIndDst(call.memory, call.succ.val)]
  /\ Returned("make_transpose_graph") =>
       \A ptr \in {from_le_bytes(call.input.memory[1].body[2],
                                 call.input.memory[1].body[3])} :
         JmpIndDst(call.input.memory, ptr) = None =>
           SuccVertices(Unwrap(ret).graph_t, TARGET_ADDR) = {VERTEX_C}

\* The pointer 0x80FF with both 0x80FF and 0x8100 in one bank.
C14_Witness ==
  /\ Returned("resolve_op_succ")
  /\ call.succ.val = TARGET_ADDR + 255
  /\ InBank(call.memory[1], TARGET_ADDR + 256)
  /\ Unwrap(ret).dst = None

\* The graph of JMP ($80FF).
GraphOfWrappingJmpInd ==
  /\ Returned("make_transpose_graph")
  /\ call.input.memory[1].body = << 108, 255, 128 >>
  /\ SuccVertices(Unwrap(ret).graph_t, TARGET_ADDR) = {VERTEX_C}

\* C18: encoding and decoding are inverse.  For every first byte b and every
\* operand bytes of the length b requires, Op::fetch(b || operand).to_bytes()
\* is b || operand again (and fetch does not panic); for every value o of Op,
\* Op::fetch(o.to_bytes()) is o again.
C18_OpRoundTrip ==
  /\ Returned("Op::fetch") /\ Len(call.buf) > 0 /\ Len(call.buf) = op_len(call.buf[1])
       => /\ ~Unwrap(ret).panic
          /\ Unwrap(ret).bytes = call.buf
  /\ Returned("Op::to_bytes")
       => /\ ~Unwrap(ret).fetched.panic
          /\ Unwrap(ret).fetched.op = call.op

\* a JMP $1234 (4C 34 12) decoded and encoded again: the two operand bytes
\* differ, so their order is part of the round trip
C18_Witness ==
  /\ Returned("Op::fetch")
  /\ call.buf = << 76, 255, 1 >>
  /\ Unwrap(ret).op = [variant |-> "JmpAbs", arg |-> 511]
  /\ Unwrap(ret).bytes = << 76, 255, 1 >>

\* a backward branch encoded and decoded again: the offset is negative
OpRoundTripOfNegativeRel ==
  /\ Returned("Op::to_bytes")
  /\ call.op = [variant |-> "Bne", arg |-> 0 - 1]
  /\ Unwrap(ret).bytes = << 208, 255 >>
  /\ Unwrap(ret).fetched.op = call.op

\* two banks share an address
SharesAddress(b1, b2) ==
  \E a \in b1.addr .. (b1.addr + Len(b1.body) - 1) :
    b2.addr <= a /\ a <= b2.addr + Len(b2.body) - 1

\* C19: Memory::new(banks) panics iff some two of the banks share an address;
\* when it succeeds, find_bank_id(a) is Some(i) exactly when bank i holds a and
\* None when no bank holds a.
C19_MemoryNew ==
  Returned("Memory::new") =>
    LET banks == call.banks
        holds(i, a) == banks[i].addr <= a /\ a <= banks[i].addr + Len(banks[i].body) - 1
    IN  /\ Unwrap(ret).panic <=>
             \E i, j \in 1 .. Len(banks) : i # j /\ SharesAddress(banks[i], banks[j])
        /\ ~Unwrap(ret).panic =>
             \A a \in ProbeAddrs :
               /\ \A i \in 1 .. Len(banks) : Unwrap(ret).found[a] = Some(i - 1) <=> holds(i, a)
               /\ (\A i \in 1 .. Len(banks) : ~holds(i, a)) => Unwrap(ret).found[a] = None
               /\ Unwrap(ret).found[a] = find_bank_id(banks, a)

\* three adjacent banks given out of address order: construction succeeds and
\* each address is found in its own bank
C19_Witness ==
  /\ Returned("Memory::new")
  /\ call.banks = << Bank(TARGET_ADDR + 1, << 234 >>, FALSE),
                     Bank(TARGET_ADDR + 2, << 234, 96 >>, FALSE),
                     Bank(TARGET_ADDR, << 234 >>, FALSE) >>
  /\ ~Unwrap(ret).panic
  /\ Unwrap(ret).found[TARGET_ADDR] = Some(2)
  /\ Unwrap(ret).found[TARGET_ADDR + 3] = Some(1)
  /\ Unwrap(ret).found[TARGET_ADDR + 4] = None

\* two banks sharing exactly one address: construction panics
MemoryNewCollision ==
  /\ Returned("Memory::new")
  /\ call.banks = << Bank(TARGET_ADDR, << 234, 96 >>, FALSE),
                     Bank(TARGET_ADDR + 1, << 234 >>, FALSE) >>
  /\ Unwrap(ret).panic

\* the address congruent to x modulo 0x10000, for x within three address
\* spaces of 0..=0xFFFF
Wrapped(x) == CHOOSE r \in {x + k * AddressSpace : k \in (0 - 3) .. 3} : 0 <= r /\ r <= ADDR_MAX

\* C20: for every address a and offset d, unsigned or signed, the checked
\* additions return None exactly when a + d lies outside 0..=0xFFFF and a + d
\* otherwise; the wrapping additions return (a + d) mod 0x10000.
C20_AddressArithmetic ==
  Returned("add_unsigned") \/ Returned("add_signed") =>
    LET sum == call.a + call.d
    IN  /\ Unwrap(ret).checked = None <=> (sum < 0 \/ sum > ADDR_MAX)
        /\ Unwrap(ret).checked # None => Unwrap(ret).checked = Some(sum)
        /\ Unwrap(ret).wrapping = Wrapped(sum)

\* 0xFFFF + 1: the checked addition gives None and the wrapping one gives 0
C20_Witness ==
  /\ Returned("add_unsigned")
  /\ call.a = ADDR_MAX /\ call.d = 1
  /\ Unwrap(ret).checked = None
  /\ Unwrap(ret).wrapping = 0

\* 0 - 1: the checked addition gives None and the wrapping one gives 0xFFFF
AddSignedBelowZero ==
  /\ Returned("add_signed")
  /\ call.a = 0 /\ call.d = 0 - 1
  /\ Unwrap(ret).checked = None
  /\ Unwrap(ret).wrapping = ADDR_MAX

\* the number of bytes of a statement list, counted statement by statement
BytesOf(statements) ==
  LET size(stmt) == CASE stmt.kind = "Byte" -> 1
                      [] stmt.kind = "IncompleteOp" -> Len(stmt.buf)
                      [] stmt.kind = "Op" -> 1 + operand_len(stmt.op.opcode)
      sizes == [i \in DOMAIN statements |-> size(statements[i])]
  IN  IF Len(statements) = 0 THEN 0
      ELSE IF Len(statements) = 1 THEN sizes[1]
      ELSE IF Len(statements) = 2 THEN sizes[1] + sizes[2]
      ELSE sizes[1] + sizes[2] + sizes[3]

\* C21: AssemblyBuilder::build returns an error, and no Assembly, when one of
\* the four fields was not supplied, when the statement list is empty, or
\* when the statement lengths do not add up to the length of the range; in
\* every other case it returns an Assembly carrying the supplied values.
C21_BuildContract ==
  Returned("AssemblyBuilder::build") =>
    LET b == call.builder
        missing == \/ b.bank_addr_range = None \/ b.bank_name = None
                   \/ b.statements = None \/ b.labels = None
        refused(bb) == \/ Unwrap(bb.statements) = << >>
                       \/ BytesOf(Unwrap(bb.statements))
                            # Unwrap(bb.bank_addr_range).max - Unwrap(bb.bank_addr_range).min + 1
    IN  IF missing \/ refused(b)
        THEN Unwrap(ret).tag = "Err" /\ DOMAIN Unwrap(ret) = {"tag", "msg"}
        ELSE Unwrap(ret) = [tag |-> "Ok",
                            bank_addr_range |-> Unwrap(b.bank_addr_range),
                            bank_name |-> Unwrap(b.bank_name),
                            statements |-> Unwrap(b.statements),
                            labels |-> Unwrap(b.labels)]

\* every field supplied and a non-empty statement list, but two bytes of
\* statements for a range of three addresses: build refuses
C21_Witness ==
  /\ Returned("AssemblyBuilder::build")
  /\ call.builder.bank_addr_range = Some(from_start_len(TARGET_ADDR, 3))
  /\ call.builder.bank_name # None /\ call.builder.labels # None
  /\ call.builder.statements = Some(<< ByteStmt(0), ByteStmt(1) >>)
  /\ Unwrap(ret).tag = "Err"

\* every field supplied and the lengths agree: build gives the Assembly
BuildSucceeds ==
  /\ Returned("AssemblyBuilder::build")
  /\ call.builder.statements = Some(<< OpStmt(169, 1), ByteStmt(96) >>)
  /\ Unwrap(ret).tag = "Ok"
  /\ Unwrap(ret).statements = << OpStmt(169, 1), ByteStmt(96) >>

(***************************************************************************)
(* The successors of get_succ_addrs as vertices of the graph.              *)
(***************************************************************************)
\* the addresses the instruction at a may go to, and whether it may go to an
\* address that cannot be resolved
ResolvedDsts(r) ==
  CASE r.kind \in {"Normal", "Jsr", "JmpAbs"} -> {r.dst}
    [] r.kind \in {"Brk", "JmpInd"} -> r.dst
    [] r.kind = "Branch" -> {r.taken, r.not_taken}
    [] OTHER -> {}

Unresolvable(r) ==
  \/ r.kind \in {"Kil", "Rti", "Rts"}
  \/ r.kind \in {"Brk", "JmpInd"} /\ r.dst = None

\* the vertices get_succ_addrs returned
ReturnedVertices ==
  {IF Unwrap(Unwrap(ret))[n].kind = "Somewhere" THEN VERTEX_C ELSE Unwrap(Unwrap(ret))[n].addr :
     n \in DOMAIN Unwrap(Unwrap(ret))}

\* the banks of the memory of the call that hold d
BanksOf(d) == {n \in DOMAIN call.input.memory : Bank_contains_addr(call.input.memory[n], d)}

\* get_succ_addrs returned the successors of a fetched instruction, each
\* resolved address d being the vertex d when concrete(d, B) and the vertex
\* C otherwise, and each unresolvable successor being the vertex C
SuccessorsFollow(concrete(_, _)) ==
  LET vertices(f, r) ==
        {IF concrete(d, f.bank_id + 1) THEN d ELSE VERTEX_C : d \in ResolvedDsts(r)}
          \cup (IF Unresolvable(r) THEN {VERTEX_C} ELSE {})
      expected(f) ==
        vertices(f, resolve_op_succ(call.input.memory, call.addr, Op_succ(f.op)))
      agrees(f) ==
        IF f.tag # "Ok" THEN Unwrap(ret) = None
        ELSE Unwrap(ret) # None /\ ReturnedVertices = expected(f)
  IN  Returned("get_succ_addrs") => agrees(fetch_op(call.input.memory, call.addr))

C28_CommentRule ==
  SuccessorsFollow(LAMBDA d, B : \A n \in BanksOf(d) : n = B \/ call.input.memory[n].fixed)

\* JMP $9000 from the bank at 0x8000 to the bank at 0x9000, which is not
\* fixed: the successor returned is the address itself
JumpToUnfixedBankIsConcrete ==
  /\ Returned("get_succ_addrs")
  /\ call.addr = TARGET_ADDR
  /\ call.input.memory[1].body = << 76, 0, 144 >>
  /\ ~call.input.memory[2].fixed
  /\ Unwrap(ret) = Some(<< SuccAddr(OTHER_ADDR) >>)

\* the same jump when the bank at 0x9000 is fixed: the successor returned is
\* the vertex C
JumpToFixedBankIsSomewhere ==
  /\ Returned("get_succ_addrs")
  /\ call.addr = TARGET_ADDR
  /\ call.input.memory[1].body = << 76, 0, 144 >>
  /\ call.input.memory[2].fixed
  /\ Unwrap(ret) = Some(<< Somewhere >>)

(***************************************************************************)
(* Pass 4: the read rule and the write rule.                               *)
(***************************************************************************)
\* the 256 addresses from base on, modulo 0x10000
IndexedFrom(base) == {(base + i) % 65536 : i \in 0 .. 255}

\* the read candidates of an instruction, by its addressing mode
ReadCandidatesOf(op) ==
  LET mode == addressing(op.opcode)
      reads == opcode_is_read(op.opcode)
  IN  CASE mode \in {"Ind", "IndY"} -> {op.arg, op.arg + 1}
        [] mode = "IndX" -> 0 .. 255
        [] mode \in {"Zp", "Abs"} /\ reads -> {op.arg}
        [] mode \in {"ZpX", "ZpY"} /\ reads -> 0 .. 255
        [] mode \in {"AbsX", "AbsY"} /\ reads -> IndexedFrom(op.arg)
        [] OTHER -> {}

\* C31: the read rule invalidates an instruction exactly when its set of
\* read candidates is not empty and every candidate is unreadable.  The
\* candidates are the two pointer bytes for Ind and IndY and the whole zero
\* page for IndX, whatever the opcode; and for the opcodes classified as
\* reading the operand address for Zp and Abs, the whole zero page for ZpX
\* and ZpY, the 256 addresses from the base on (modulo 0x10000) for AbsX and
\* AbsY.  The other operands have no candidate.  The candidates cannot be
\* built only for a pointer that wraps around its page.
C31_ReadRule ==
  Returned("op_reads_unreadable_addr") =>
    IF Unwrap(ret).panic THEN operand_is_wrapping_ptr(call.op)
    ELSE Unwrap(ret).value
           <=> /\ ReadCandidatesOf(call.op) # {}
               /\ \A a \in ReadCandidatesOf(call.op) : "R" \notin Get(call.perms, a)

\* an instruction that is not classified as reading is invalidated through
\* the pointer of its (zp,X) operand
C31_Witness ==
  /\ Returned("op_reads_unreadable_addr")
  /\ addressing(call.op.opcode) = "IndX"
  /\ ~opcode_is_read(call.op.opcode)
  /\ ~Unwrap(ret).panic
  /\ Unwrap(ret).value

\* an abs,X instruction is kept by the one readable address of the 256,
\* which is below its base
ReadableAfterWrapKeeps ==
  /\ Returned("op_reads_unreadable_addr")
  /\ addressing(call.op.opcode) = "AbsX"
  /\ call.op.arg = 65535
  /\ "R" \in Get(call.perms, 254)
  /\ "R" \notin call.perms.rest
  /\ ~Unwrap(ret).panic
  /\ ~Unwrap(ret).value

\* the write candidates of an instruction, by its addressing mode
WriteCandidatesOf(op) ==
  LET mode == addressing(op.opcode)
  IN  CASE ~opcode_is_write(op.opcode) -> {}
        [] mode \in {"Zp", "Abs"} -> {op.arg}
        [] mode \in {"ZpX", "ZpY"} -> 0 .. 255
        [] mode \in {"AbsX", "AbsY"} -> IndexedFrom(op.arg)
        [] OTHER -> {}

\* C32: the write rule invalidates an instruction exactly when the
\* instruction is classified as writing and its operand is Zp or Abs with
\* an unwritable target, or ZpX or ZpY with the whole zero page unwritable,
\* or AbsX or AbsY with the 256 addresses from the base on (modulo 0x10000)
\* unwritable.  An instruction with an IndX or IndY operand, and an
\* instruction that is not classified as writing, is never invalidated.
C32_WriteRule ==
  Returned("op_writes_unwritable_addr") =>
    /\ Unwrap(ret)
         <=> /\ WriteCandidatesOf(call.op) # {}
             /\ \A a \in WriteCandidatesOf(call.op) : "W" \notin Get(call.perms, a)
    /\ addressing(call.op.opcode) \in {"IndX", "IndY"} => ~Unwrap(ret)
    /\ ~opcode_is_write(call.op.opcode) => ~Unwrap(ret)

\* a writing instruction with a (zp),Y operand is kept where no address is
\* writable
C32_Witness ==
  /\ Returned("op_writes_unwritable_addr")
  /\ opcode_is_write(call.op.opcode)
  /\ addressing(call.op.opcode) = "IndY"
  /\ call.perms.at = << >>
  /\ "W" \notin call.perms.rest
  /\ ~Unwrap(ret)

\* a writing zp,X instruction is invalidated where no address of the zero
\* page is writable
UnwritableZeroPageInvalidates ==
  /\ Returned("op_writes_unwritable_addr")
  /\ opcode_is_write(call.op.opcode)
  /\ addressing(call.op.opcode) = "ZpX"
  /\ Unwrap(ret)

(***************************************************************************)
(* Pass 4: the rule of the successor.                                      *)
(***************************************************************************)
\* the instruction of the call and the bank it was fetched from
CalledOp == fetch_op(call.input.memory, call.addr).op

CalledBank == call.input.memory[fetch_op(call.input.memory, call.addr).bank_id + 1]

\* the instructions that are neither a flow instruction nor KIL
IsNonFlow(opcode) ==
  /\ ~opcode_is_branch(opcode)
  /\ ~opcode_is_kil(opcode)
  /\ opcode \notin {OPC_BRK, OPC_RTI, OPC_RTS, OPC_JSR, OPC_JMP_ABS, OPC_JMP_IND}

\* the address right behind the instruction of the call is an address, and
\* one of the bank of the instruction
FallsThroughInBank ==
  /\ call.addr + op_len(CalledOp.opcode) <= 65535
  /\ InBank(CalledBank, call.addr + op_len(CalledOp.opcode))

\* C33: an instruction that is not a flow instruction, at addr and of
\* length L, passes the check of its successor exactly when addr + L is an
\* address of the bank of addr, and is invalid (set NotCode by Pass 4) when
\* it does not; BRK, RTI, RTS, JSR, JMP abs and JMP (ind) always pass the
\* check.
C33_FallThroughRule ==
  Returned("is_invalid_op") =>
    /\ IsNonFlow(CalledOp.opcode) =>
         /\ Unwrap(ret).succ_ok <=> FallsThroughInBank
         /\ ~FallsThroughInBank => ~Unwrap(ret).result.panic /\ Unwrap(ret).result.invalid
    /\ CalledOp.opcode \in {OPC_BRK, OPC_RTI, OPC_RTS, OPC_JSR, OPC_JMP_ABS, OPC_JMP_IND}
         => Unwrap(ret).succ_ok

\* an official NOP in the last byte of a bank that another bank follows
C33_Witness ==
  /\ Returned("is_invalid_op")
  /\ CalledOp.opcode = 234
  /\ Len(call.input.memory) = 2
  /\ call.addr + 1 = call.input.memory[2].addr
  /\ ~Unwrap(ret).succ_ok
  /\ Unwrap(ret).result.invalid

\* a NOP at 0xFFFF, and a JMP to an address of no bank that is kept
NopAtTopInvalid ==
  /\ Returned("is_invalid_op")
  /\ CalledOp.opcode = 234
  /\ call.addr = 65535
  /\ Unwrap(ret).result.invalid

JmpOutOfBanksKept ==
  /\ Returned("is_invalid_op")
  /\ CalledOp.opcode = OPC_JMP_ABS
  /\ ~Unwrap(ret).result.invalid

(***************************************************************************)
(* Pass 6: the statement of one address.                                   *)
(***************************************************************************)
\* the bytes of the bank of the call from the address of the call on
CalledRest == Remaining(call.input.memory[1], call.addr)

\* the instruction at the address of the call is whole
CalledWhole == Len(CalledRest) >= op_len(CalledRest[1])

\* C34: the statement the sweep emits at a: if a was Unknown and the
\* instruction is whole, a becomes Code and the statement is the Op; if a
\* was Unknown and the instruction is cut by the end of the bank, a becomes
\* NotCode and the statement is the Byte of the first byte alone; if a was
\* Code the statement is the Op, or the IncompleteOp of the one or two bytes
\* left in the bank; if a was NotCode the statement is the Byte at a.
\* Hence a is not Unknown afterwards, it is Code where the statement is an
\* Op or an IncompleteOp and NotCode where it is a Byte.
C34_SweepClassification ==
  Returned("get_stmt") =>
    LET rule(s, before, after, whole) ==
          /\ before = "Unknown" /\ whole
               => /\ after = "Code"
                  /\ s = [kind |-> "Op", op |-> Op_fetch(SubSeq(CalledRest, 1, op_len(CalledRest[1])))]
          /\ before = "Unknown" /\ ~whole
               => /\ after = "NotCode"
                  /\ s = [kind |-> "Byte", byte |-> CalledRest[1]]
                  /\ Statement_len(s) = 1
          /\ before = "Code" /\ whole
               => /\ after = "Code"
                  /\ s = [kind |-> "Op", op |-> Op_fetch(SubSeq(CalledRest, 1, op_len(CalledRest[1])))]
          /\ before = "Code" /\ ~whole
               => /\ after = "Code"
                  /\ s = [kind |-> "IncompleteOp", buf |-> CalledRest]
                  /\ Len(CalledRest) \in {1, 2}
          /\ before = "NotCode"
               => after = "NotCode" /\ s = [kind |-> "Byte", byte |-> CalledRest[1]]
          /\ after # "Unknown"
          /\ s.kind \in {"Op", "IncompleteOp"} <=> after = "Code"
          /\ s.kind = "Byte" <=> after = "NotCode"
    IN  /\ ~Unwrap(ret).panic
        /\ rule(Unwrap(ret).stmt, Get(call.analysis, call.addr),
                Get(Unwrap(ret).analysis, call.addr), CalledWhole)

\* JMP cut after two bytes at an Unknown address: the Byte 0x4C, and the
\* address is NotCode
C34_Witness ==
  /\ Returned("get_stmt")
  /\ Get(call.analysis, call.addr) = "Unknown"
  /\ CalledRest = << 76, 0 >>
  /\ Unwrap(ret).stmt = [kind |-> "Byte", byte |-> 76]
  /\ Get(Unwrap(ret).analysis, call.addr) = "NotCode"

\* JMP cut after two bytes at a Code address: the IncompleteOp of both bytes
CutCodeIsIncompleteOp ==
  /\ Returned("get_stmt")
  /\ Get(call.analysis, call.addr) = "Code"
  /\ Unwrap(ret).stmt = [kind |-> "IncompleteOp", buf |-> << 76, 0 >>]

(***************************************************************************)
(* Pass 7: which references get a label.                                   *)
(***************************************************************************)
\* the addresses the instruction op at a refers to
RefsOf(memory, a, op) ==
  LET mode == addressing(op.opcode)
      pointed(ptr) == {x.addr : x \in fetch_addr(memory, ptr)}
  IN  CASE op.opcode = OPC_JMP_IND -> pointed(op.arg)
        [] mode \in {"Zp", "ZpX", "ZpY", "Abs", "AbsX", "AbsY", "IndX"} -> {op.arg}
        [] mode = "IndY" -> {op.arg} \cup pointed(op.arg)
        [] mode = "Rel" -> {(a + 2 + op.arg) % 65536}
        [] OTHER -> {}

\* the banks of the memory of the call that hold a
HoldersOf(a) == {n \in DOMAIN call.input.memory : InBank(call.input.memory[n], a)}

\* the addresses at which the label pass of the call is to set a label
GatedRefs ==
  LET target == call.input.target_bank_id + 1
      gate(a, d) ==
        \/ target \in HoldersOf(a) /\ HoldersOf(d) # {}
        \/ /\ call.input.memory[target].fixed
           /\ HoldersOf(a) # {} /\ target \notin HoldersOf(a)
           /\ target \in HoldersOf(d)
      refs(a, rest) ==
        IF Len(rest) >= op_len(rest[1])
        THEN RefsOf(call.input.memory, a, Op_fetch(SubSeq(rest, 1, op_len(rest[1]))))
        ELSE {}
      of(a) ==
        IF call.analysis.at[a] # "Code" THEN {}
        ELSE UNION {{d \in refs(a, Remaining(call.input.memory[n], a)) : gate(a, d)} :
                      n \in HoldersOf(a)}
  IN  UNION {of(a) : a \in DOMAIN call.analysis.at}

\* C36: Pass 7 sets a label at the address d that the Code instruction at a
\* refers to exactly when a lies in the target bank and d in some bank, or
\* the target bank is fixed, a lies in another bank and d lies in the
\* target bank.  So with a target bank that is not fixed the instructions of
\* the other banks give no label, and no label is set at an address of no
\* bank.
C36_CrossReferenceGating ==
  Returned("label::analyze") =>
    /\ ~Unwrap(ret).panic
    /\ Unwrap(ret).labels.rest = None
    /\ \A d \in DOMAIN Unwrap(ret).labels.at :
         Unwrap(ret).labels.at[d] # None <=> d \in GatedRefs
    /\ GatedRefs \subseteq DOMAIN Unwrap(ret).labels.at

\* the target bank is fixed: the reference from the other bank into it has
\* a label, and so has the reference from it into the other bank
C36_Witness ==
  /\ Returned("label::analyze")
  /\ call.input.target_bank_id = 0
  /\ call.input.memory[1].fixed
  /\ call.input.memory[2].body = << 173, 1, 128 >>
  /\ call.input.memory[1].body = << 76, 0, 144 >>
  /\ call.analysis.at[OTHER_ADDR] = "Code"
  /\ call.analysis.at[TARGET_ADDR] = "Code"
  /\ Unwrap(ret).labels.at[TARGET_ADDR + 1] # None
  /\ Unwrap(ret).labels.at[OTHER_ADDR] # None

\* the target bank is not fixed: the reference from the other bank into it
\* has no label
UnfixedTargetIgnoresOtherBanks ==
  /\ Returned("label::analyze")
  /\ call.input.target_bank_id = 0
  /\ ~call.input.memory[1].fixed
  /\ call.input.memory[2].body = << 173, 1, 128 >>
  /\ call.analysis.at[OTHER_ADDR] = "Code"
  /\ Unwrap(ret).labels.at[TARGET_ADDR + 1] = None

(***************************************************************************)
(* Pass 1: the labels of the CDL.                                          *)
(***************************************************************************)
\* bit n of the CDL byte of the call at a
CdlBit(a, n) == (call.input.cdl.at[a] \div (2 ^ n)) % 2 = 1

\* bit n is set at a and clear at a - 1, or a is 0
RunStarts(a, n) == CdlBit(a, n) /\ (a = 0 \/ ~CdlBit(a - 1, n))

\* C38: Pass 1 sets a label at a exactly when a lies in the target bank and
\* the CDL at a has the jump-target bit (4), or the entrypoint bit (7), or
\* the indirect-data bit (5) set at a and clear at a - 1 (or a = 0), or the
\* PCM-data bit (6) set at a and clear at a - 1 (or a = 0).  The label is
\* an entrypoint exactly when bit 7 is set at a.
C38_CdlLabels ==
  Returned("cdl::analyze") =>
    /\ Unwrap(ret).labels.rest = None
    /\ \A a \in DOMAIN call.input.cdl.at :
         /\ Unwrap(ret).labels.at[a] # None
              <=> /\ InBank(call.input.memory[1], a)
                  /\ \/ CdlBit(a, 4)
                     \/ CdlBit(a, 7)
                     \/ RunStarts(a, 5)
                     \/ RunStarts(a, 6)
         /\ Unwrap(ret).labels.at[a] # None
              => (Unwrap(Unwrap(ret).labels.at[a]).entrypoint <=> CdlBit(a, 7))

\* a run of indirect data over the two addresses of the bank, begun before
\* the bank: no label in the bank
RunBegunBeforeBank ==
  /\ Returned("cdl::analyze")
  /\ call.input.cdl.at = (TARGET_ADDR - 1 :> 32) @@ (TARGET_ADDR :> 32)
                           @@ (TARGET_ADDR + 1 :> 32) @@ (TARGET_ADDR + 2 :> 0)
  /\ \A a \in DOMAIN call.input.cdl.at : Unwrap(ret).labels.at[a] = None

\* PCM data from address 0 on: a label at 0 and none at 1
C38_Witness ==
  /\ Returned("cdl::analyze")
  /\ call.input.cdl.at = (0 :> 64) @@ (1 :> 64) @@ (2 :> 0)
  /\ Unwrap(ret).labels.at[0] = Some(Label_new(FALSE))
  /\ Unwrap(ret).labels.at[1] = None

\* an entrypoint in the bank and one behind it
EntrypointInAndOut ==
  /\ Returned("cdl::analyze")
  /\ TARGET_ADDR + 1 \in DOMAIN call.input.cdl.at
  /\ call.input.cdl.at[TARGET_ADDR + 1] = 128
  /\ call.input.cdl.at[TARGET_ADDR + 2] = 128
  /\ Unwrap(ret).labels.at[TARGET_ADDR + 1] = Some(Label_new(TRUE))
  /\ Unwrap(ret).labels.at[TARGET_ADDR + 2] = None

(***************************************************************************)
(* Pass 4 and the conditional branches.                                    *)
(***************************************************************************)
\* a holds a whole conditional branch and is Unknown when Pass 4 starts
IsUnknownBranch(a) ==
  /\ Get(AfterInterrupt.analysis, a) = "Unknown"
  /\ \E f \in {fetch_op(input.memory, a)} : f.tag = "Ok" /\ opcode_is_branch(f.op.opcode)

\* x is an address, and an address of the bank bank_id
InBankOf(x, bank_id) ==
  /\ 0 <= x /\ x <= ADDR_MAX
  /\ Bank_contains_addr(input.memory[bank_id + 1], x)

\* C22: in Pass 4 an Unknown conditional branch at addr with offset rel passes
\* the check of its successor exactly when addr + rel + 2 is an address of
\* the bank of addr; a branch that does not pass is NotCode when Pass 4 ends.
C22_BranchSuccessorRule ==
  pc \in AfterOpPcs =>
    \A a \in Cells :
      IsUnknownBranch(a) =>
        LET rule(f) ==
              /\ op_has_valid_succ(input.memory, a, f.op, f.bank_id)
                   <=> InBankOf(a + f.op.arg + 2, f.bank_id)
              /\ ~InBankOf(a + f.op.arg + 2, f.bank_id)
                   => Get(AfterOp.analysis, a) = "NotCode"
        IN  rule(fetch_op(input.memory, a))

\* The check as the code makes it: the address tested is addr + rel, without
\* the length of the branch, and a branch that fails it is NotCode when
\* Pass 4 ends.
BranchCheckAsCoded ==
  pc \in AfterOpPcs =>
    \A a \in Cells :
      IsUnknownBranch(a) =>
        LET rule(f) ==
              /\ op_has_valid_succ(input.memory, a, f.op, f.bank_id)
                   <=> InBankOf(a + f.op.arg, f.bank_id)
              /\ ~InBankOf(a + f.op.arg, f.bank_id)
                   => Get(AfterOp.analysis, a) = "NotCode"
        IN  rule(fetch_op(input.memory, a))

\* a branch to itself (rel = -2) at the first address of its bank, Unknown
\* when Pass 4 starts and NotCode when it ends
BranchToItselfRejected ==
  /\ pc = "flow_notcode"
  /\ IsUnknownBranch(TARGET_ADDR)
  /\ fetch_op(input.memory, TARGET_ADDR).op.arg = 0 - 2
  /\ input.memory[1].addr = TARGET_ADDR
  /\ Get(AfterOp.analysis, TARGET_ADDR) = "NotCode"

(***************************************************************************)
(* Pass 5b and the successors of the Code addresses.                       *)
(***************************************************************************)
AfterFlowCodePcs == {"linear_sweep", "label", "build", "done"}

\* C23: at the end of Pass 5b, for every address a classified Code whose
\* instruction is fetchable, whose successors are all concrete and exactly
\* one of whose successors is not NotCode, that successor is Code, whether
\* it lies above or below a.
C23_ForwardPropagation ==
  pc \in AfterFlowCodePcs =>
    LET a5 == AfterFlowCode.analysis
    IN  \A a \in Cells :
          Get(a5, a) = "Code" =>
            \A d \in LiveUniqueSucc(a5, a) : Get(a5, d) = "Code"

\* The propagation the code achieves: the successor is Code when it is not
\* below a; a successor below a that the loop over the addresses passed
\* while it was not Code is in the visited set, and the walk stops at it.
ForwardPropagationUpward ==
  pc \in AfterFlowCodePcs =>
    LET a5 == AfterFlowCode.analysis
    IN  \A a \in Cells :
          Get(a5, a) = "Code" =>
            \A d \in LiveUniqueSucc(a5, a) : d >= a => Get(a5, d) = "Code"

\* a Code address whose one live successor lies below it and is still
\* Unknown when Pass 5b ends
BackwardSuccessorLeftUnknown ==
  /\ pc = "linear_sweep"
  /\ \E a \in Cells :
       /\ Get(AfterFlowCode.analysis, a) = "Code"
       /\ \E d \in LiveUniqueSucc(AfterFlowCode.analysis, a) :
            d < a /\ Get(AfterFlowCode.analysis, d) = "Unknown"

(***************************************************************************)
(* Pass 3 and the labels of the handlers.                                  *)
(***************************************************************************)
AfterInterruptPcs == {"op"} \cup AfterOpPcs

\* the destinations of the enabled vectors that are Code when Pass 3 ends
\* and had no entrypoint label when it started
HandlersMadeCode ==
  {d \in EnabledHandlerDsts :
     /\ Get(AfterInterrupt.analysis, d) = "Code"
     /\ ~EntrypointAt(AfterPermission.labels, d)}

\* C26: when Pass 3 sets the destination of an enabled vector to Code, it
\* sets an entrypoint label there exactly when the destination lies inside
\* the target bank.
C26_HandlerLabel ==
  pc \in AfterInterruptPcs =>
    \A d \in HandlersMadeCode :
      EntrypointAt(AfterInterrupt.labels, d) <=> Bank_contains_addr(target_bank(input), d)

\* The label as the code sets it: the bank compared with the target bank is
\* the bank the vector was read from, not the bank of the destination.
HandlerLabelAsCoded ==
  pc \in AfterInterruptPcs =>
    \A d \in HandlersMadeCode :
      EntrypointAt(AfterInterrupt.labels, d)
        <=> \E v \in EnabledVectors :
              \E x \in fetch_addr(input.memory, v) :
                x.addr = d /\ x.bank_id = input.target_bank_id

\* the vectors are in the target bank and a handler is not: the handler is
\* labelled as an entrypoint outside the target bank
HandlerLabelledOutsideTarget ==
  /\ pc = "op"
  /\ \E d \in HandlersMadeCode :
       /\ EntrypointAt(AfterInterrupt.labels, d)
       /\ ~Bank_contains_addr(target_bank(input), d)

\* a handler in the target bank, read from a vector of another bank, has no
\* entrypoint label
HandlerInTargetUnlabelled ==
  /\ pc = "op"
  /\ \E d \in HandlersMadeCode :
       /\ ~EntrypointAt(AfterInterrupt.labels, d)
       /\ Bank_contains_addr(target_bank(input), d)

(***************************************************************************)
(* The sweep and the Code addresses of the target bank.                    *)
(***************************************************************************)
\* the addresses at which the statements ss, laid out from addr on, start
\* with an Op or an IncompleteOp
RECURSIVE StartsOfCode(_, _)
StartsOfCode(ss, addr) ==
  IF ss = << >> THEN {}
  ELSE (IF IsCodeStmt(Head(ss)) THEN {addr} ELSE {})
         \cup StartsOfCode(Tail(ss), addr + Statement_len(Head(ss)))

TargetAddrs == {a \in Cells : Bank_contains_addr(target_bank(input), a)}

\* the statements ss laid out from addr on: where each starts, how long it
\* is, and whether it is an Op or an IncompleteOp
RECURSIVE Layout(_, _)
Layout(ss, addr) ==
  IF ss = << >> THEN {}
  ELSE {[start |-> addr, len |-> Statement_len(Head(ss)), code |-> IsCodeStmt(Head(ss))]}
         \cup Layout(Tail(ss), addr + Statement_len(Head(ss)))

\* C29, as stated: every address of the target bank that is Code in the
\* final analysis is the start of an emitted Op or IncompleteOp statement.
C29_AsStated ==
  pc = "done" =>
    LET starts == StartsOfCode(stmts, target_bank(input).addr)
    IN  \A a \in TargetAddrs : analysis.at[a] = "Code" => a \in starts

\* C29, as the code behaves: a statement is an Op or an IncompleteOp exactly
\* when the address it starts at is Code in the final analysis, and every
\* Code address of the target bank lies in an Op or an IncompleteOp, at its
\* start or among its later bytes; no Code address is emitted as a Byte and
\* none is skipped.
C29_CodeInCodeStatement ==
  pc = "done" =>
    LET holds(layout) ==
          /\ \A s \in layout : s.code <=> Get(analysis, s.start) = "Code"
          /\ \A a \in TargetAddrs :
               analysis.at[a] = "Code" =>
                 \E s \in layout : s.code /\ s.start <= a /\ a < s.start + s.len
    IN  holds(Layout(stmts, target_bank(input).addr))

\* a finished run with a Code address of the target bank among the operand
\* bytes of the instruction emitted before it
C29_Witness ==
  /\ pc = "done"
  /\ \E a \in TargetAddrs :
       /\ analysis.at[a] = "Code"
       /\ \E s \in Layout(stmts, target_bank(input).addr) :
            s.code /\ s.start < a /\ a < s.start + s.len

(***************************************************************************)
(* Pass 3 and the bytes of the vectors.  The vectors are processed in the  *)
(* order NMI, RESET, IRQ; BeforeVector(p) is the state set_handler finds   *)
(* when it is called for p and AfterVector(p) the state it leaves.         *)
(***************************************************************************)
AfterVector(p) ==
  LET s0 == [analysis |-> AfterPermission.analysis, labels |-> AfterPermission.labels,
             panic |-> FALSE]
      s1 == IF config.use_nmi THEN set_handler(s0, env, NMI_VECTOR) ELSE s0
      s2 == IF config.use_reset THEN set_handler(s1, env, RESET_VECTOR) ELSE s1
      s3 == IF config.use_irq THEN set_handler(s2, env, IRQ_VECTOR) ELSE s2
  IN  CASE p = 0 -> s0 [] p = NMI_VECTOR -> s1 [] p = RESET_VECTOR -> s2 [] p = IRQ_VECTOR -> s3

BeforeVector(p) ==
  CASE p = NMI_VECTOR -> AfterVector(0)
    [] p = RESET_VECTOR -> AfterVector(NMI_VECTOR)
    [] p = IRQ_VECTOR -> AfterVector(RESET_VECTOR)

AfterLinearSweep == trail[7]

\* the address at which the n-th statement starts
StartOf(n) == target_bank(input).addr + SumLen(SubSeq(stmts, 1, n - 1))

\* the bytes of the target bank from a to its end
RestOfBank(a) ==
  SubSeq(target_bank(input).body, a - target_bank(input).addr + 1,
         Len(target_bank(input).body))

\* Where the sweep emits a statement at a: if a was Unknown and the
\* instruction is whole, a becomes Code and the statement is the Op; if a
\* was Code the statement is the Op, or the IncompleteOp of the one or two
\* bytes left in the bank; if a was NotCode the statement is the Byte at a.
\* After the sweep no start of a statement is Unknown, the starts of Op and
\* IncompleteOp are Code and the starts of Byte are NotCode.
SweepClassificationInPipeline ==
  pc \in AfterSweepPcs =>
    \A n \in 1 .. Len(stmts) :
      LET rule(a, s, f, before, after) ==
            /\ before = "Unknown" /\ f.tag = "Ok"
                 => after = "Code" /\ s = [kind |-> "Op", op |-> f.op]
            /\ before = "Unknown" /\ f.tag = "Incomplete"
                 => after = "NotCode" /\ s = [kind |-> "Byte", byte |-> RestOfBank(a)[1]]
            /\ before = "Code" /\ f.tag = "Ok"
                 => after = "Code" /\ s = [kind |-> "Op", op |-> f.op]
            /\ before = "Code" /\ f.tag = "Incomplete"
                 => /\ after = "Code"
                    /\ s = [kind |-> "IncompleteOp", buf |-> RestOfBank(a)]
                    /\ Len(RestOfBank(a)) \in {1, 2}
            /\ before = "NotCode"
                 => after = "NotCode" /\ s = [kind |-> "Byte", byte |-> RestOfBank(a)[1]]
            /\ f.tag \in {"Ok", "Incomplete"}
            /\ after # "Unknown"
            /\ s.kind \in {"Op", "IncompleteOp"} <=> after = "Code"
            /\ s.kind = "Byte" <=> after = "NotCode"
      IN  rule(StartOf(n), stmts[n], fetch_op(input.memory, StartOf(n)),
               Get(AfterFlowCode.analysis, StartOf(n)),
               Get(AfterLinearSweep.analysis, StartOf(n)))

\* Pass 4 leaves no Unknown address whose instruction is cut by the end of
\* its bank, so the sweep never meets one.
NoUnknownCutInstruction ==
  pc \in AfterOpPcs =>
    \A a \in Cells :
      fetch_op(input.memory, a).tag = "Incomplete" => Get(AfterOp.analysis, a) # "Unknown"

\* a cut instruction at a Code address: an IncompleteOp of two bytes
IncompleteOpEmitted ==
  /\ pc = "label"
  /\ \E n \in 1 .. Len(stmts) : stmts[n].kind = "IncompleteOp" /\ Len(stmts[n].buf) = 2

\* an Unknown address the sweep makes Code
UnknownMadeCode ==
  /\ pc = "label"
  /\ \E n \in 1 .. Len(stmts) :
       /\ Get(AfterFlowCode.analysis, StartOf(n)) = "Unknown"
       /\ stmts[n].kind = "Op"

(***************************************************************************)
(* Pass 6: the labels the sweep sets.                                      *)
(***************************************************************************)
\* the n-th statement is the first one, or exactly one of it and the one
\* before it is a Byte, or the one before it is Op RTI, RTS, JMP abs or
\* JMP (ind)
SweepLabels(n) ==
  \/ n = 1
  \/ /\ n > 1
     /\ \/ (stmts[n - 1].kind = "Byte") # (stmts[n].kind = "Byte")
        \/ /\ stmts[n - 1].kind = "Op"
           /\ stmts[n - 1].op.opcode \in {OPC_RTI, OPC_RTS, OPC_JMP_ABS, OPC_JMP_IND}

\* C35: the sweep sets a label at the address of a statement exactly when
\* the statement is the first one, or exactly one of the statement and the
\* one before it is a Byte, or the one before it is Op RTI, RTS, JMP abs or
\* JMP (ind).  The label is not an entrypoint unless the address had an
\* entrypoint label already, which it keeps; the labels of all other
\* addresses are as they were before the sweep.
C35_SweepLabels ==
  pc \in AfterSweepPcs =>
    /\ AfterLinearSweep.labels.rest = AfterFlowCode.labels.rest
    /\ \A a \in DOMAIN AfterLinearSweep.labels.at :
         LET rule(before, after) ==
               IF \E n \in 1 .. Len(stmts) : StartOf(n) = a /\ SweepLabels(n)
               THEN /\ after # None
                    /\ Unwrap(after).entrypoint
                         <=> before # None /\ Unwrap(before).entrypoint
               ELSE after = before
         IN  rule(Get(AfterFlowCode.labels, a), Get(AfterLinearSweep.labels, a))

\* the sweep sets a label behind an RTS that another instruction follows,
\* and no label at a later statement
C35_Witness ==
  /\ pc = "label"
  /\ \E n \in 2 .. Len(stmts) :
       /\ stmts[n - 1].kind = "Op" /\ stmts[n - 1].op.opcode = OPC_RTS
       /\ stmts[n].kind = "Op"
       /\ Get(AfterFlowCode.labels, StartOf(n)) = None
       /\ Get(AfterLinearSweep.labels, StartOf(n)) = Some(Label_new(FALSE))
  /\ \E n \in 2 .. Len(stmts) : Get(AfterLinearSweep.labels, StartOf(n)) = None

\* the sweep meets an entrypoint label at the first address of the bank and
\* leaves it an entrypoint
SweepKeepsEntrypoint ==
  /\ pc = "label"
  /\ Get(AfterFlowCode.labels, StartOf(1)) = Some(Label_new(TRUE))
  /\ Get(AfterLinearSweep.labels, StartOf(1)) = Some(Label_new(TRUE))

(***************************************************************************)
(* Pass 3 and a handler that is NotCode, or a vector that cannot be read.  *)
(***************************************************************************)
\* the state when set_handler has dealt with the bytes of the vector p and
\* with the label of the vector, and has not yet read the vector
AfterVectorBytes(p) ==
  LET step(s) ==
        [analysis |-> IF Get(s.analysis, p) # "Code" /\ Get(s.analysis, p + 1) # "Code"
                      THEN [s.analysis EXCEPT !.at[p] = "NotCode", !.at[p + 1] = "NotCode"]
                      ELSE s.analysis,
         labels |-> IF Bank_contains_addr(target_bank(input), p)
                    THEN [s.labels EXCEPT !.at[p] =
                            IF @ = None THEN Some(Label_new(FALSE)) ELSE @]
                    ELSE s.labels,
         panic |-> FALSE]
  IN  step(BeforeVector(p))

\* the address an enabled vector holds is NotCode when set_handler looks at it
HandlerIsNotCode(p) ==
  \E x \in fetch_addr(input.memory, p) : Get(AfterVectorBytes(p).analysis, x.addr) = "NotCode"

\* C37, as stated: when the address read from an enabled vector is NotCode
\* when Pass 3 looks at it, Pass 3 leaves it NotCode and sets no label at
\* it; when the vector cannot be read, nothing is changed beyond the bytes
\* and the label of the vector.
C37_AsStated ==
  pc \in AfterInterruptPcs =>
    \A p \in EnabledVectors :
      LET holds(before, after) ==
            /\ \A x \in fetch_addr(input.memory, p) :
                 Get(AfterVectorBytes(p).analysis, x.addr) = "NotCode" =>
                   /\ Get(after.analysis, x.addr) = "NotCode"
                   /\ Get(after.labels, x.addr) = Get(before.labels, x.addr)
            /\ fetch_addr(input.memory, p) = None => after = AfterVectorBytes(p)
      IN  holds(BeforeVector(p), AfterVector(p))

\* C37, as the code behaves: when the address read from an enabled vector
\* is NotCode when Pass 3 looks at it, or the vector cannot be read, Pass 3
\* changes nothing beyond the bytes and the label of the vector: the
\* address stays NotCode and gets no label of a handler.  (The address has
\* the label of the vector when it is the address of the vector itself.)
\* The vectors behind it are dealt with as usual: the state after the last
\* vector is the state Pass 3 ends with.
C37_HandlerNotCode ==
  pc \in AfterInterruptPcs =>
    /\ AfterVector(IRQ_VECTOR).analysis = AfterInterrupt.analysis
    /\ AfterVector(IRQ_VECTOR).labels = AfterInterrupt.labels
    /\ \A p \in EnabledVectors :
         HandlerIsNotCode(p) \/ fetch_addr(input.memory, p) = None
           => /\ AfterVector(p) = AfterVectorBytes(p)
              /\ \A x \in fetch_addr(input.memory, p) :
                   /\ Get(AfterVector(p).analysis, x.addr) = "NotCode"
                   /\ x.addr # p => Get(AfterVector(p).labels, x.addr)
                                      = Get(BeforeVector(p).labels, x.addr)

\* a handler in the target bank that is NotCode before Pass 3 and is left
\* NotCode and without a label, in a run that goes on to its end
C37_Witness ==
  /\ pc = "done"
  /\ \E p \in EnabledVectors :
       \E x \in fetch_addr(input.memory, p) :
         /\ Bank_contains_addr(target_bank(input), x.addr)
         /\ x.addr \notin {p, p + 1}
         /\ Get(AfterPermission.analysis, x.addr) = "NotCode"
         /\ Get(AfterInterrupt.analysis, x.addr) = "NotCode"
         /\ Get(AfterInterrupt.labels, x.addr) = None

\* an enabled vector that cannot be read
UnreadableVector ==
  /\ pc = "op"
  /\ \E p \in EnabledVectors : fetch_addr(input.memory, p) = None

\* a vector of the target bank that holds its own address
VectorHoldsItself ==
  /\ pc = "op"
  /\ \E p \in EnabledVectors :
       /\ Bank_contains_addr(target_bank(input), p)
       /\ \E x \in fetch_addr(input.memory, p) : x.addr = p
       /\ Get(BeforeVector(p).labels, p) = None
       /\ Get(AfterVector(p).analysis, p) = "NotCode"
       /\ Get(AfterVector(p).labels, p) = Some(Label_new(FALSE))

(***************************************************************************)
(* analyze_notcode (Pass 5a) run one pop at a time, the vertex popped      *)
(* being any vertex of the work stack: the loop of the code, which pops    *)
(* the last vertex pushed, is one of the behaviours.  The analysis the     *)
(* loop starts from is any classification of the bank.                     *)
(***************************************************************************)
FlowBodies ==
  { << 234, 234, 234 >>, << 208, 1, 234, 234 >>, << 208, 0, 234, 96 >>,
    << 234, 76, 0, 128 >>, << 16, 254, 234 >>, << 76, 3, 128, 234 >>, << 32, 3, 128, 234 >>,
    << 96, 76, 0, 128 >> }

FlowInputs ==
  {MakeInput([memory |-> << Bank(TARGET_ADDR, b, FALSE) >>, target_bank_id |-> 0],
             [at |-> [a \in BankAddrs(<< Bank(TARGET_ADDR, b, FALSE) >>) |-> RX], rest |-> {}],
             CdlOf(<< >>)) : b \in FlowBodies}

\* every classification of the addresses of the bank; Unknown elsewhere
AnalysesOf(i) ==
  {[at |-> [a \in DOMAIN i.cdl.at |-> IF a \in DOMAIN f THEN f[a] ELSE "Unknown"],
    rest |-> "Unknown"] :
     f \in [BankAddrs(i.memory) -> {"Unknown", "Code", "NotCode"}]}

NotcodeCalls ==
  UNION {{[fn |-> "analyze_notcode", input |-> i, analysis |-> an] : an \in AnalysesOf(i)} :
           i \in FlowInputs}

PopInit ==
  /\ Idle
  /\ call \in NotcodeCalls
  /\ ret = None
  /\ work = NoWork

\* make_transpose_graph and the initial work stack
StartNotcode ==
  LET start(g) ==
        [phase |-> "loop", graph_t |-> g.graph_t, in_degs |-> g.in_degs,
         analysis |-> call.analysis, panic |-> FALSE,
         stack |-> {a \in DOMAIN call.analysis.at : g.in_degs[a] = 0}]
  IN  /\ call.fn = "analyze_notcode"
      /\ work = NoWork
      /\ work' = start(make_transpose_graph(
                         call.analysis, [input |-> call.input, config |-> AnalysisConfig_default]))
      /\ UNCHANGED << input, config, analysis, labels, stmts, asm, pc, trail, call, ret >>

\* one turn of the loop of analyze_notcode, on any vertex of the stack
PopVertex ==
  LET relaxed(addr, k) ==
        [work EXCEPT !.analysis = k.analysis, !.in_degs = k.in_degs, !.panic = k.panic,
                     !.stack = (@ \ {addr}) \cup {k.stack[i] : i \in DOMAIN k.stack}]
      turn(addr) ==
        IF Get(work.analysis, addr) # "NotCode" THEN [work EXCEPT !.panic = TRUE]
        ELSE relaxed(addr, notcode_relax([analysis |-> work.analysis, in_degs |-> work.in_degs,
                                          stack |-> << >>, panic |-> FALSE],
                                         work.graph_t[addr]))
  IN  /\ work # NoWork
      /\ ret = None
      /\ ~work.panic
      /\ \E addr \in work.stack : work' = turn(addr)
      /\ UNCHANGED << input, config, analysis, labels, stmts, asm, pc, trail, call, ret >>

\* the stack is empty: analyze_notcode returns
ReturnNotcode ==
  /\ work # NoWork
  /\ ret = None
  /\ work.panic \/ work.stack = {}
  /\ ret' = Some([analysis |-> work.analysis, panic |-> work.panic])
  /\ UNCHANGED << input, config, analysis, labels, stmts, asm, pc, trail, call, work >>

PopNext ==
  \/ StartNotcode
  \/ PopVertex
  \/ ReturnNotcode

PopSpec == PopInit /\ [][PopNext]_vars

(***************************************************************************)
(* The control-flow graph G of a classification, vertex by vertex.         *)
(***************************************************************************)
\* the successors in G of the vertex v
GSucc(an, i, v) ==
  LET of(succ) ==
        IF succ = None THEN {v}
        ELSE {IF Unwrap(succ)[n].kind = "Somewhere" THEN VERTEX_C ELSE Unwrap(succ)[n].addr :
                n \in DOMAIN Unwrap(succ)}
  IN  IF v = VERTEX_C THEN {VERTEX_C}
      ELSE CASE Get(an, v) = "Code" -> {v}
             [] Get(an, v) = "NotCode" -> {}
             [] Get(an, v) = "Unknown" -> of(get_succ_addrs(i, v))

\* the vertices reached from the vertices of S by paths of any length
RECURSIVE GReach(_, _, _)
GReach(an, i, S) ==
  LET grow(T) == IF T = S THEN S ELSE GReach(an, i, T)
  IN  grow(S \cup UNION {GSucc(an, i, v) : v \in S})

\* a cycle of G is reached from a
CycleReachable(an, i, a) ==
  \E v \in GReach(an, i, {a}) : v \in GReach(an, i, GSucc(an, i, v))

\* C24: whatever the order the vertices are popped in, analyze_notcode ends
\* without a failed assertion and turns NotCode exactly the Unknown addresses
\* that reach no cycle of G; every other address, the Code ones among them,
\* keeps its kind; the result is the one of the order the code pops in.
C24_NotcodeFixedPoint ==
  Returned("analyze_notcode") =>
    LET final == Unwrap(ret).analysis
        coded(r) == r.analysis = final /\ ~r.panic
    IN  /\ ~Unwrap(ret).panic
        /\ \A a \in DOMAIN final.at :
             final.at[a] = IF /\ call.analysis.at[a] = "Unknown"
                              /\ ~CycleReachable(call.analysis, call.input, a)
                           THEN "NotCode" ELSE call.analysis.at[a]
        /\ final.rest = call.analysis.rest
        /\ coded(analyze_notcode([analysis |-> call.analysis, labels |-> << >>, panic |-> FALSE],
                                 [input |-> call.input, config |-> AnalysisConfig_default]))

\* BNE +1 followed by two addresses that are NotCode: both were on the work
\* stack at the start, so that there were two orders to pop them in, and the
\* branch, which reaches nothing else, has become NotCode
C24_Witness ==
  /\ Returned("analyze_notcode")
  /\ call.input.memory[1].body = << 208, 1, 234, 234 >>
  /\ call.analysis.at[TARGET_ADDR] = "Unknown"
  /\ call.analysis.at[TARGET_ADDR + 2] = "NotCode"
  /\ call.analysis.at[TARGET_ADDR + 3] = "NotCode"
  /\ Unwrap(ret).analysis.at[TARGET_ADDR] = "NotCode"

\* two vertices wait on the work stack: the order of the pops is a choice
TwoOnTheStack == work # NoWork /\ Cardinality(work.stack) >= 2 /\ ret = None

\* The same fixed point in the pipeline: Pass 5a turns NotCode exactly the
\* addresses that were Unknown when Pass 4 ended and reach no cycle of G.
NotcodeFixedPointInPipeline ==
  pc \in {"flow_code"} \cup AfterFlowCodePcs =>
    \A a \in Cells :
      Get(AfterFlowNotcode.analysis, a)
        = IF /\ Get(AfterOp.analysis, a) = "Unknown"
             /\ ~CycleReachable(AfterOp.analysis, input, a)
          THEN "NotCode" ELSE Get(AfterOp.analysis, a)

(***************************************************************************)
(* analyze_code (Pass 5b) run one address at a time, the address taken     *)
(* being any address the loop has not yet taken: the loop of the code,     *)
(* which takes them in ascending order, is one of the behaviours.  The     *)
(* analysis the loop starts from is any classification of the bank that    *)
(* Pass 5a leaves as it is.                                                *)
(***************************************************************************)
WalkBodies == { << 96, 76, 0, 128 >>, << 234, 76, 0, 128 >>, << 76, 3, 128, 234 >> }

WalkInputs == {i \in FlowInputs : i.memory[1].body \in WalkBodies}

SettledAnalysesOf(i) ==
  {an \in AnalysesOf(i) :
     analyze_notcode([analysis |-> an, labels |-> << >>, panic |-> FALSE],
                     [input |-> i, config |-> AnalysisConfig_default]).analysis = an}

CodeCalls ==
  UNION {{[fn |-> "analyze_code", input |-> i, analysis |-> an] : an \in SettledAnalysesOf(i)} :
           i \in WalkInputs}

WalkInit ==
  /\ Idle
  /\ call \in CodeCalls
  /\ ret = None
  /\ work = NoWork

\* the visited set is empty and no address has been taken
StartCode ==
  /\ call.fn = "analyze_code"
  /\ work = NoWork
  /\ work' = [phase |-> "walk", analysis |-> call.analysis, visited |-> {}, panic |-> FALSE,
              todo |-> DOMAIN call.analysis.at]
  /\ UNCHANGED << input, config, analysis, labels, stmts, asm, pc, trail, call, ret >>

\* one turn of the loop over the addresses of analyze_code, on any address
\* not yet taken
TakeAddress ==
  LET taken(addr, s1) ==
        [work EXCEPT !.analysis = s1.analysis, !.visited = s1.visited, !.panic = s1.panic,
                     !.todo = @ \ {addr}]
      turn(addr) ==
        taken(addr, analyze_code_addr([analysis |-> work.analysis, labels |-> << >>,
                                       panic |-> work.panic, visited |-> work.visited],
                                      [input |-> call.input, config |-> AnalysisConfig_default],
                                      addr))
  IN  /\ work # NoWork
      /\ ret = None
      /\ \E addr \in work.todo : work' = turn(addr)
      /\ UNCHANGED << input, config, analysis, labels, stmts, asm, pc, trail, call, ret >>

\* every address was taken: analyze_code returns
ReturnCode ==
  /\ work # NoWork
  /\ ret = None
  /\ work.todo = {}
  /\ ret' = Some([analysis |-> work.analysis, panic |-> work.panic])
  /\ UNCHANGED << input, config, analysis, labels, stmts, asm, pc, trail, call, work >>

WalkNext ==
  \/ StartCode
  \/ TakeAddress
  \/ ReturnCode

WalkSpec == WalkInit /\ [][WalkNext]_vars

\* C25: the addresses that are Code when Pass 5b ends are the same whatever
\* the order the addresses are taken in: the result of any order is the
\* result of the ascending order of the code.
C25_CodeOrderTolerant ==
  Returned("analyze_code") =>
    LET same(r) == r.analysis = Unwrap(ret).analysis
    IN  same(analyze_code([analysis |-> call.analysis, labels |-> << >>, panic |-> FALSE],
                          [input |-> call.input, config |-> AnalysisConfig_default]))

\* RTS at 0x8000 and JMP $8000 at 0x8001, the JMP being Code: an order that
\* takes 0x8001 before 0x8000 has made 0x8000 Code, which the ascending
\* order leaves Unknown
DescendingOrderMarksMore ==
  /\ Returned("analyze_code")
  /\ call.input.memory[1].body = << 96, 76, 0, 128 >>
  /\ call.analysis.at[TARGET_ADDR] = "Unknown"
  /\ call.analysis.at[TARGET_ADDR + 1] = "Code"
  /\ Unwrap(ret).analysis.at[TARGET_ADDR] = "Code"
  /\ Get(analyze_code([analysis |-> call.analysis, labels |-> << >>, panic |-> FALSE],
                      [input |-> call.input, config |-> AnalysisConfig_default]).analysis,
         TARGET_ADDR) = "Unknown"

(***************************************************************************)
(* The loops of Pass 5a, Pass 5b and Pass 6 run one turn at a time, in the *)
(* order of the code: the work stack of analyze_notcode, the loop over the *)
(* addresses and the walk of analyze_code, and the loop of the sweep.  The *)
(* analysis the passes start from is any classification of the bank.       *)
(* work.pushes counts, for each address, how often it was pushed on the    *)
(* work stack, and work.visits how often visit! answered true for it.      *)
(***************************************************************************)
\* the count at which pushes and visits stop counting
MaxCount == 2

\* JMP $8000 -- NOP; JMP $8000 -- JMP $8003; JMP $8000 -- BPL -2; NOP
\* -- NOP; NOP; RTS -- LDA #1; JMP (cut)
LoopBodies ==
  { << 76, 0, 128 >>, << 234, 76, 0, 128 >>, << 76, 3, 128, 76, 0, 128 >>,
    << 16, 254, 234 >>, << 234, 234, 96 >>, << 169, 1, 76 >> }

\* a bank at 0x8000, or the bank NOP; JMP $FFFC that ends at 0xFFFF
LoopMemories ==
  {<< Bank(TARGET_ADDR, b, FALSE) >> : b \in LoopBodies}
    \cup {<< Bank(ADDR_MAX - 3, << 234, 76, 252, 255 >>, FALSE) >>}

LoopInputs ==
  {MakeInput([memory |-> m, target_bank_id |-> 0],
             [at |-> [a \in BankAddrs(m) |-> RX], rest |-> {}],
             CdlOf(<< >>)) : m \in LoopMemories}

LoopCalls ==
  UNION {{[fn |-> "analyze", input |-> i, analysis |-> an] : an \in AnalysesOf(i)} :
           i \in LoopInputs}

LoopInit ==
  /\ Idle
  /\ call \in LoopCalls
  /\ ret = None
  /\ work = NoWork

\* one more, up to MaxCount
Counted(n) == IF n < MaxCount THEN n + 1 ELSE MaxCount

\* the counts with each address of the sequence counted once more
RECURSIVE CountAll(_, _)
CountAll(counts, addrs) ==
  IF addrs = << >> THEN counts
  ELSE CountAll([counts EXCEPT ![Head(addrs)] = Counted(@)], Tail(addrs))

LoopEnv == [input |-> call.input, config |-> AnalysisConfig_default]

\* analyze_notcode up to its loop: the transposed graph and the vertices of
\* in-degree 0 pushed in ascending order
LoopsStarted ==
  LET zero == [a \in DOMAIN call.analysis.at |-> 0]
      start(g, stack) ==
        [phase |-> "notcode", graph_t |-> g.graph_t, in_degs |-> g.in_degs,
         analysis |-> call.analysis, panic |-> FALSE,
         stack |-> stack, pushes |-> CountAll(zero, stack), visits |-> zero]
      begin(g) ==
        start(g, SelectSeq(Ascending(DOMAIN call.analysis.at), LAMBDA a : g.in_degs[a] = 0))
  IN  begin(make_transpose_graph(call.analysis, LoopEnv))

StartLoops ==
  /\ call.fn = "analyze"
  /\ work = NoWork
  /\ work' = LoopsStarted
  /\ UNCHANGED << input, config, analysis, labels, stmts, asm, pc, trail, call, ret >>

\* one turn of `while let Some(addr) = stack.pop()`
StackPopped ==
  LET below == SubSeq(work.stack, 1, Len(work.stack) - 1)
      relaxed(k) ==
        [work EXCEPT !.analysis = k.analysis, !.in_degs = k.in_degs, !.stack = k.stack,
                     !.pushes = CountAll(@, SubSeq(k.stack, Len(below) + 1, Len(k.stack))),
                     !.panic = k.panic,
                     !.phase = IF k.panic THEN "end" ELSE @]
      turn(addr) ==
        IF Get(work.analysis, addr) # "NotCode"
        THEN [work EXCEPT !.panic = TRUE, !.phase = "end"]
        ELSE relaxed(notcode_relax([analysis |-> work.analysis, in_degs |-> work.in_degs,
                                    stack |-> below, panic |-> FALSE],
                                   work.graph_t[addr]))
  IN  turn(work.stack[Len(work.stack)])

PopStack ==
  /\ work # NoWork
  /\ work.phase = "notcode"
  /\ work.stack # << >>
  /\ work' = StackPopped
  /\ UNCHANGED << input, config, analysis, labels, stmts, asm, pc, trail, call, ret >>

\* the stack is empty: analyze_code starts its loop over the addresses
StartWalks ==
  /\ work # NoWork
  /\ work.phase = "notcode"
  /\ work.stack = << >>
  /\ work' = [phase |-> "code", analysis |-> work.analysis, panic |-> FALSE,
              pushes |-> work.pushes, visits |-> work.visits,
              todo |-> Ascending(DOMAIN work.analysis.at)]
  /\ UNCHANGED << input, config, analysis, labels, stmts, asm, pc, trail, call, ret >>

\* one turn of `for addr in Address::all()` up to the walk
AddressTaken ==
  LET addr == Head(work.todo)
  IN  IF work.visits[addr] > 0 THEN [work EXCEPT !.todo = Tail(@)]
      ELSE IF Get(work.analysis, addr) # "Code"
      THEN [work EXCEPT !.todo = Tail(@), !.visits[addr] = Counted(@)]
      ELSE [phase |-> "walk", analysis |-> work.analysis, panic |-> FALSE,
            pushes |-> work.pushes, visits |-> [work.visits EXCEPT ![addr] = Counted(@)],
            todo |-> Tail(work.todo), src |-> addr]

NextAddress ==
  /\ work # NoWork
  /\ work.phase = "code"
  /\ work.todo # << >>
  /\ work' = AddressTaken
  /\ UNCHANGED << input, config, analysis, labels, stmts, asm, pc, trail, call, ret >>

\* a walk that goes on to an address visited before
WalkedOnAgain ==
  LET back == [phase |-> "code", analysis |-> work.analysis, panic |-> FALSE,
               pushes |-> work.pushes, visits |-> work.visits, todo |-> work.todo]
      advance(dst) ==
        [work EXCEPT !.visits[dst] = Counted(@),
                     !.analysis = Put(@, dst, "Code"),
                     !.src = dst]
      step(u) ==
        IF u.panic THEN [back EXCEPT !.panic = TRUE, !.phase = "end"]
        ELSE IF u.dst = None THEN back
        ELSE advance(Unwrap(u.dst))
  IN  step(get_unique_succ_addr(work.analysis, call.input, work.src))

\* one turn of `while let Some(dst) = get_unique_succ_addr(..)`
WalkedOn ==
  LET back == [phase |-> "code", analysis |-> work.analysis, panic |-> FALSE,
               pushes |-> work.pushes, visits |-> work.visits, todo |-> work.todo]
      advance(dst) ==
        IF work.visits[dst] > 0 THEN back
        ELSE [work EXCEPT !.visits[dst] = Counted(@),
                          !.analysis = Put(@, dst, "Code"),
                          !.src = dst]
      step(u) ==
        IF u.panic THEN [back EXCEPT !.panic = TRUE, !.phase = "end"]
        ELSE IF u.dst = None THEN back
        ELSE advance(Unwrap(u.dst))
  IN  step(get_unique_succ_addr(work.analysis, call.input, work.src))

WalkOn ==
  /\ work # NoWork
  /\ work.phase = "walk"
  /\ work' = WalkedOn
  /\ UNCHANGED << input, config, analysis, labels, stmts, asm, pc, trail, call, ret >>

\* every address was taken: the sweep starts at the first address of the
\* target bank
StartSweep ==
  /\ work # NoWork
  /\ work.phase = "code"
  /\ work.todo = << >>
  /\ work' = [phase |-> "sweep", analysis |-> work.analysis, panic |-> FALSE,
              pushes |-> work.pushes, visits |-> work.visits,
              labels |-> [at |-> [a \in DOMAIN work.analysis.at |-> None], rest |-> None],
              stmts |-> << >>, addr |-> target_bank(call.input).addr]
  /\ UNCHANGED << input, config, analysis, labels, stmts, asm, pc, trail, call, ret >>

\* one turn of the loop of linear_sweep::analyze
SweptOn ==
  LET next(w, nxt) ==
        IF nxt = None THEN [w EXCEPT !.phase = "end"]
        ELSE IF ~Bank_contains_addr(target_bank(call.input), Unwrap(nxt))
        THEN [w EXCEPT !.phase = "end"]
        ELSE [w EXCEPT !.addr = Unwrap(nxt)]
      push(r) ==
        IF r.panic THEN [work EXCEPT !.panic = TRUE, !.phase = "end"]
        ELSE next([work EXCEPT
                     !.analysis = r.analysis,
                     !.labels = IF \/ work.stmts = << >>
                                   \/ needs_label(work.stmts[Len(work.stmts)], r.stmt)
                                THEN Labels_set(work.labels, work.addr, Label_new(FALSE))
                                ELSE work.labels,
                     !.stmts = Append(@, r.stmt)],
                  checked_add_unsigned(work.addr, Statement_len(r.stmt)))
  IN  push(get_stmt(work.analysis, call.input, work.addr))

SweepOn ==
  /\ work # NoWork
  /\ work.phase = "sweep"
  /\ work' = SweptOn
  /\ UNCHANGED << input, config, analysis, labels, stmts, asm, pc, trail, call, ret >>

\* the loops are over: the statements are returned
ReturnLoops ==
  /\ work # NoWork
  /\ work.phase = "end"
  /\ ret = None
  /\ ret' = Some([panic |-> work.panic])
  /\ UNCHANGED << input, config, analysis, labels, stmts, asm, pc, trail, call, work >>

LoopNext ==
  \/ StartLoops
  \/ PopStack
  \/ StartWalks
  \/ NextAddress
  \/ WalkOn
  \/ StartSweep
  \/ SweepOn
  \/ ReturnLoops

LoopSpec == LoopInit /\ [][LoopNext]_vars

\* a step of the loops
LoopStep ==
  \/ StartLoops
  \/ PopStack
  \/ StartWalks
  \/ NextAddress
  \/ WalkOn
  \/ StartSweep
  \/ SweepOn

\* LoopStep is enabled: the guards of its actions cover every state in
\* which the loops are not over
LoopStepEnabled == work = NoWork \/ work.phase # "end"

\* The program is sequential and runs on as long as it has a step to
\* take: weak fairness of the return, and weak fairness of LoopStep
\* written out with LoopStepEnabled for ENABLED << LoopStep >>_vars.
LoopFairSpec ==
  /\ LoopSpec
  /\ WF_vars(ReturnLoops)
  /\ []<>(~LoopStepEnabled) \/ []<><< LoopStep >>_vars

\* no address was pushed, or visited, more than once
CountedOnce ==
  work # NoWork =>
    \A a \in DOMAIN work.pushes : work.pushes[a] <= 1 /\ work.visits[a] <= 1

\* a turn of the sweep that is not its last moves to a higher address of
\* the target bank
SweepAdvances ==
  (work # NoWork /\ work.phase = "sweep") =>
    /\ work'.phase \in {"sweep", "end"}
    /\ work'.phase = "sweep"
         => /\ work'.addr > work.addr
            /\ Bank_contains_addr(target_bank(call.input), work'.addr)

\* C39: analyze terminates on every input.  In Pass 5a each address is
\* pushed on the work stack at most once; in Pass 5b each address is
\* visited at most once, so a walk along a cycle of successors stops when it
\* comes back to an address visited before; the sweep moves to a strictly
\* higher address of the target bank at every turn but its last.  No
\* assertion fails on the way.
C39_Termination ==
  /\ <>(ret # None)
  /\ [](CountedOnce /\ (work # NoWork => ~work.panic))
  /\ [][SweepAdvances]_vars

\* JMP $8000 at 0x8000 is Code: its walk came back to 0x8000 and stopped,
\* and the run is over
C39_Witness ==
  /\ ret # None
  /\ call.input.memory[1].body = << 76, 0, 128 >>
  /\ call.analysis.at[TARGET_ADDR] = "Code"
  /\ work.visits[TARGET_ADDR] = 1
  /\ work.stmts = << [kind |-> "Op", op |-> [opcode |-> 76, arg |-> TARGET_ADDR]] >>

\* the sweep of the bank that ends at 0xFFFF is over
SweepStopsAtTop ==
  /\ ret # None
  /\ call.input.memory[1].addr = ADDR_MAX - 3
  /\ Len(work.stmts) >= 1

\* the work stack holds two addresses at once
StackOfTwo == work # NoWork /\ work.phase = "notcode" /\ Len(work.stack) >= 2

\* every run comes to its end
LoopsEnd == <>(ret # None)
====
